---- MODULE Spec2Model ----
(***************************************************************************)
(* Model of the navigation generator of vtexhelp-nav-cli: the pipeline     *)
(* scan -> category building -> cross-language linking -> transformation   *)
(* -> validation -> output, over a bounded list of content files.          *)
(*                                                                         *)
(* Text is a sequence of one-character strings, so that the string         *)
(* conversions of the source (lowercasing, accent stripping, slugifying,   *)
(* prefixing) are computed character by character as the code does.        *)
(***************************************************************************)
EXTENDS Integers, Sequences, FiniteSets, TLC

(***************************************************************************)
(* Text primitives (JavaScript String methods used by the source)          *)
(***************************************************************************)
Uppers ==
    <<"A","B","C","D","E","F","G","H","I","J","K","L","M","N","O","P","Q",
      "R","S","T","U","V","W","X","Y","Z","Á","É","Í","Ó","Ú","Ã","Õ","Ç","Ñ">>

Lowers ==
    <<"a","b","c","d","e","f","g","h","i","j","k","l","m","n","o","p","q",
      "r","s","t","u","v","w","x","y","z","á","é","í","ó","ú","ã","õ","ç","ñ">>

Digits == {"0","1","2","3","4","5","6","7","8","9"}

AsciiLower ==
    {"a","b","c","d","e","f","g","h","i","j","k","l","m","n","o","p","q",
     "r","s","t","u","v","w","x","y","z"}

AsciiUpper ==
    {"A","B","C","D","E","F","G","H","I","J","K","L","M","N","O","P","Q",
     "R","S","T","U","V","W","X","Y","Z"}

Range(s) == {s[i] : i \in 1..Len(s)}

\* the lower-case form of every upper-case letter, and the converse
LowerOf ==
    [c \in Range(Uppers) |-> Lowers[CHOOSE i \in 1..Len(Uppers) : Uppers[i] = c]]

UpperOf ==
    [c \in Range(Lowers) |-> Uppers[CHOOSE i \in 1..Len(Lowers) : Lowers[i] = c]]

ToLowerChar(c) == IF c \in DOMAIN LowerOf THEN LowerOf[c] ELSE c

ToUpperChar(c) == IF c \in DOMAIN UpperOf THEN UpperOf[c] ELSE c

ToLowerCase(t) == [i \in 1..Len(t) |-> ToLowerChar(t[i])]

\* flatten a sequence of texts into one text
Concat(ts) ==
    LET F[i \in 0..Len(ts)] == IF i = 0 THEN <<>> ELSE F[i-1] \o ts[i]
    IN  F[Len(ts)]

\* Array.prototype.join
RECURSIVE Join(_, _)
Join(ts, sep) ==
    IF ts = <<>> THEN <<>>
    ELSE IF Len(ts) = 1 THEN ts[1]
    ELSE ts[1] \o sep \o Join(Tail(ts), sep)

\* String.prototype.split on a one-character separator (empty pieces kept)
RECURSIVE Split(_, _)
Split(t, sep) ==
    IF \E i \in 1..Len(t) : t[i] = sep
    THEN LET i == CHOOSE j \in 1..Len(t) :
                      t[j] = sep /\ \A k \in 1..(j-1) : t[k] # sep
         IN  <<SubSeq(t, 1, i-1)>> \o Split(SubSeq(t, i+1, Len(t)), sep)
    ELSE <<t>>

\* replace every maximal run of characters satisfying Bad by one Rep
CollapseRuns(t, BadSet, rep) ==
    LET F[i \in 0..Len(t)] ==
            IF i = 0 THEN <<>>
            ELSE IF t[i] \in BadSet
                 THEN IF i > 1 /\ t[i-1] \in BadSet THEN F[i-1]
                      ELSE Append(F[i-1], rep)
                 ELSE Append(F[i-1], t[i])
    IN  F[Len(t)]

\* strip every leading and trailing character of the set
RECURSIVE TrimSet(_, _)
TrimSet(t, S) ==
    IF t = <<>> THEN t
    ELSE IF t[1] \in S THEN TrimSet(Tail(t), S)
    ELSE IF t[Len(t)] \in S THEN TrimSet(SubSeq(t, 1, Len(t)-1), S)
    ELSE t

(***************************************************************************)
(* CategoryBuilder.normalizeCanonicalSegment and its synonym table         *)
(***************************************************************************)
StripAccentChar(c) ==
    CASE c \in {"à","á","â","ã","ä","å"} -> "a"
      [] c \in {"è","é","ê","ë"} -> "e"
      [] c \in {"ì","í","î","ï"} -> "i"
      [] c \in {"ò","ó","ô","õ","ö"} -> "o"
      [] c \in {"ù","ú","û","ü"} -> "u"
      [] c = "ç" -> "c"
      [] c = "ñ" -> "n"
      [] OTHER -> c

\* the pairs <<localized identifier, canonical identifier>> of the table
categoryMappings ==
    <<
       <<<<"o","p","e","r","a","c","i","o","n","e","s","-","d","e","-","l","a","-","t","i","e","n","d","a">>,
         <<"s","t","o","r","e","-","o","p","e","r","a","t","i","o","n","s">>>>,
       <<<<"o","p","e","r","a","c","o","e","s","-","d","a","-","l","o","j","a">>,
         <<"s","t","o","r","e","-","o","p","e","r","a","t","i","o","n","s">>>>,
       <<<<"i","n","t","e","g","r","a","c","i","o","n","e","s">>,
         <<"i","n","t","e","g","r","a","t","i","o","n","s">>>>,
       <<<<"i","n","t","e","g","r","a","c","o","e","s">>,
         <<"i","n","t","e","g","r","a","t","i","o","n","s">>>>,
       <<<<"c","a","t","a","l","o","g","o">>,
         <<"c","a","t","a","l","o","g">>>>,
       <<<<"f","a","c","t","u","r","a","s">>,
         <<"b","i","l","l","i","n","g">>>>,
       <<<<"f","a","t","u","r","a","s">>,
         <<"b","i","l","l","i","n","g">>>>,
       <<<<"p","a","g","o","s">>,
         <<"p","a","y","m","e","n","t","s">>>>,
       <<<<"p","a","g","a","m","e","n","t","o","s">>,
         <<"p","a","y","m","e","n","t","s">>>>,
       <<<<"e","n","v","i","o">>,
         <<"s","h","i","p","p","i","n","g">>>>,
       <<<<"c","o","n","f","i","g","u","r","a","c","i","o","n","e","s","-","d","e","-","l","a","-","t","i","e","n","d","a">>,
         <<"s","t","o","r","e","-","s","e","t","t","i","n","g","s">>>>,
       <<<<"c","o","n","f","i","g","u","r","a","c","o","e","s","-","d","a","-","l","o","j","a">>,
         <<"s","t","o","r","e","-","s","e","t","t","i","n","g","s">>>>,
       <<<<"g","e","s","t","i","o","n","-","d","e","-","l","a","-","c","u","e","n","t","a">>,
         <<"a","c","c","o","u","n","t","-","m","a","n","a","g","e","m","e","n","t">>>>,
       <<<<"g","e","r","e","n","c","i","a","m","e","n","t","o","-","d","a","-","c","o","n","t","a">>,
         <<"a","c","c","o","u","n","t","-","m","a","n","a","g","e","m","e","n","t">>>>,
       <<<<"a","c","e","r","c","a","-","d","e","-","a","d","m","i","n">>,
         <<"a","b","o","u","t","-","t","h","e","-","a","d","m","i","n">>>>,
       <<<<"s","o","b","r","e","-","o","-","a","d","m","i","n">>,
         <<"a","b","o","u","t","-","t","h","e","-","a","d","m","i","n">>>>,
       <<<<"a","u","t","e","n","t","i","c","a","c","i","o","n">>,
         <<"a","u","t","h","e","n","t","i","c","a","t","i","o","n">>>>,
       <<<<"a","u","t","e","n","t","i","c","a","c","a","o">>,
         <<"a","u","t","h","e","n","t","i","c","a","t","i","o","n">>>>,
       <<<<"c","e","n","t","r","o","-","d","e","-","m","e","n","s","a","j","e","s">>,
         <<"m","e","s","s","a","g","e","-","c","e","n","t","e","r">>>>,
       <<<<"c","e","n","t","r","a","l","-","d","e","-","m","e","n","s","a","g","e","n","s">>,
         <<"m","e","s","s","a","g","e","-","c","e","n","t","e","r">>>>,
       <<<<"c","o","m","e","r","c","i","o","-","u","n","i","f","i","c","a","d","o">>,
         <<"u","n","i","f","i","e","d","-","c","o","m","m","e","r","c","e">>>>,
       <<<<"t","a","s","a","s","-","y","-","p","r","o","m","o","c","i","o","n","e","s">>,
         <<"p","r","o","m","o","t","i","o","n","s","-","a","n","d","-","t","a","x","e","s">>>>,
       <<<<"p","r","o","m","o","c","o","e","s","-","e","-","t","a","x","a","s">>,
         <<"p","r","o","m","o","t","i","o","n","s","-","a","n","d","-","t","a","x","e","s">>>>,
       <<<<"p","o","l","i","t","i","c","a","s","-","c","o","m","e","r","c","i","a","l","e","s">>,
         <<"t","r","a","d","e","-","p","o","l","i","c","i","e","s">>>>,
       <<<<"p","o","l","i","t","i","c","a","s","-","c","o","m","e","r","c","i","a","i","s">>,
         <<"t","r","a","d","e","-","p","o","l","i","c","i","e","s">>>>,
       <<<<"p","r","o","y","e","c","t","o","s","-","e","-","i","n","t","e","g","r","a","c","i","o","n","e","s">>,
         <<"p","r","o","j","e","c","t","s","-","a","n","d","-","i","n","t","e","g","r","a","t","i","o","n","s">>>>,
       <<<<"p","r","o","j","e","t","o","s","-","e","-","i","n","t","e","g","r","a","c","o","e","s">>,
         <<"p","r","o","j","e","c","t","s","-","a","n","d","-","i","n","t","e","g","r","a","t","i","o","n","s">>>>,
       <<<<"s","u","g","e","r","e","n","c","i","a","s">>,
         <<"s","u","g","g","e","s","t","i","o","n","s">>>>,
       <<<<"s","u","g","e","s","t","o","e","s">>,
         <<"s","u","g","g","e","s","t","i","o","n","s">>>>,
       <<<<"s","u","s","c","r","i","p","c","i","o","n","e","s">>,
         <<"s","u","b","s","c","r","i","p","t","i","o","n","s">>>>,
       <<<<"a","s","s","i","n","a","t","u","r","a","s">>,
         <<"s","u","b","s","c","r","i","p","t","i","o","n","s">>>>,
       <<<<"o","p","e","r","a","t","i","v","o">>,
         <<"o","p","e","r","a","t","i","o","n","a","l">>>>,
       <<<<"o","p","e","r","a","c","i","o","n","a","l">>,
         <<"o","p","e","r","a","t","i","o","n","a","l">>>>,
       <<<<"o","t","r","o","s">>,
         <<"o","t","h","e","r">>>>,
       <<<<"o","u","t","r","o","s">>,
         <<"o","t","h","e","r">>>>,
       <<<<"p","r","e","c","i","o","s">>,
         <<"p","r","i","c","e","s">>>>,
       <<<<"p","r","e","c","o","s">>,
         <<"p","r","i","c","e","s">>>>,
       <<<<"p","e","d","i","d","o","s">>,
         <<"o","r","d","e","r","s">>>>,
       <<<<"i","n","f","r","a","e","s","t","r","u","c","t","u","r","a">>,
         <<"i","n","f","r","a","s","t","r","u","c","t","u","r","e">>>>,
       <<<<"i","n","f","r","a","e","s","t","r","u","t","u","r","a">>,
         <<"i","n","f","r","a","s","t","r","u","c","t","u","r","e">>>>,
       <<<<"s","e","g","u","r","i","d","a","d">>,
         <<"s","e","c","u","r","i","t","y">>>>,
       <<<<"s","e","g","u","r","a","n","c","a">>,
         <<"s","e","c","u","r","i","t","y">>>>,
       <<<<"s","o","p","o","r","t","e">>,
         <<"s","u","p","p","o","r","t">>>>,
       <<<<"s","u","p","o","r","t","e">>,
         <<"s","u","p","p","o","r","t">>>>
    >>

\* the table as a lookup: categoryMappings[normalized] || normalized
MappingOf ==
    [k \in {categoryMappings[i][1] : i \in 1..Len(categoryMappings)} |->
        categoryMappings[CHOOSE i \in 1..Len(categoryMappings) :
                             categoryMappings[i][1] = k][2]]

\* a normalizer that skips the table: the segment stays as normalized
MappedSegmentNoTable(normalized) == normalized

MappedSegment(normalized) ==
    IF normalized \in DOMAIN MappingOf THEN MappingOf[normalized] ELSE normalized

\* the characters a normalized segment keeps: [a-z0-9-]
SegmentChars == AsciiLower \cup Digits \cup {"-"}

\* .replace(/^-|-$/g, ''): drop one leading and one trailing '-'
StripEdgeDash(t) ==
    SubSeq(t, IF t # <<>> /\ t[1] = "-" THEN 2 ELSE 1,
              IF Len(t) > 1 /\ t[Len(t)] = "-" THEN Len(t) - 1 ELSE Len(t))

\* lowercase, strip the accent, and replace what is not [a-z0-9-] by '-'
DashedChar(c) ==
    IF c \in SegmentChars THEN c ELSE "-"

NormalizeSegmentText(segment) ==
    StripEdgeDash(
        CollapseRuns([i \in 1..Len(segment) |->
                         DashedChar(StripAccentChar(ToLowerChar(segment[i])))] \o <<>>,
                     {"-"}, "-"))

normalizeCanonicalSegment(segment) == MappedSegment(NormalizeSegmentText(segment))

(***************************************************************************)
(* utils/categoryNormalization.normalizeCategoryName                       *)
(***************************************************************************)
\* config/acronyms.getAcronymCase: VTEX_ACRONYMS, the dictionary of known
\* acronyms (lower-case word -> display case); <<>> stands for undefined
getAcronymCase(lowerWord) ==
    CASE lowerWord = <<"v","t","e","x">> -> <<"V","T","E","X">>
      [] lowerWord = <<"s","k","u">> -> <<"S","K","U">>
      [] lowerWord = <<"a","p","i">> -> <<"A","P","I">>
      [] lowerWord = <<"i","d">> -> <<"I","D">>
      [] lowerWord = <<"u","r","l">> -> <<"U","R","L">>
      [] lowerWord = <<"c","m","s">> -> <<"C","M","S">>
      [] lowerWord = <<"i","o">> -> <<"I","O">>
      [] lowerWord = <<"b","2","b">> -> <<"B","2","B">>
      [] lowerWord = <<"b","2","c">> -> <<"B","2","C">>
      [] lowerWord = <<"o","m","s">> -> <<"O","M","S">>
      [] lowerWord = <<"e","r","p">> -> <<"E","R","P">>
      [] lowerWord = <<"c","r","m">> -> <<"C","R","M">>
      [] lowerWord = <<"h","t","m","l">> -> <<"H","T","M","L">>
      [] lowerWord = <<"c","s","s">> -> <<"C","S","S">>
      [] lowerWord = <<"j","s">> -> <<"J","S">>
      [] lowerWord = <<"j","s","o","n">> -> <<"J","S","O","N">>
      [] lowerWord = <<"x","m","l">> -> <<"X","M","L">>
      [] lowerWord = <<"h","t","t","p">> -> <<"H","T","T","P">>
      [] lowerWord = <<"h","t","t","p","s">> -> <<"H","T","T","P","S">>
      [] lowerWord = <<"s","s","l">> -> <<"S","S","L">>
      [] lowerWord = <<"t","l","s">> -> <<"T","L","S">>
      [] lowerWord = <<"c","d","n">> -> <<"C","D","N">>
      [] lowerWord = <<"d","n","s">> -> <<"D","N","S">>
      [] lowerWord = <<"r","e","s","t">> -> <<"R","E","S","T">>
      [] lowerWord = <<"s","e","o">> -> <<"S","E","O">>
      [] lowerWord = <<"u","t","m">> -> <<"U","T","M">>
      [] lowerWord = <<"e","a","n">> -> <<"E","A","N">>
      [] lowerWord = <<"s","l","a">> -> <<"S","L","A">>
      [] lowerWord = <<"p","d","p">> -> <<"P","D","P">>
      [] lowerWord = <<"p","l","p">> -> <<"P","L","P">>
      [] lowerWord = <<"f","a","q">> -> <<"F","A","Q">>
      [] lowerWord = <<"p","c","i">> -> <<"P","C","I">>
      [] lowerWord = <<"f","b","a">> -> <<"F","B","A">>
      [] lowerWord = <<"p","w","a">> -> <<"P","W","A">>
      [] lowerWord = <<"c","s","v">> -> <<"C","S","V">>
      [] lowerWord = <<"p","n","g">> -> <<"P","N","G">>
      [] lowerWord = <<"j","p","g">> -> <<"J","P","G">>
      [] lowerWord = <<"j","p","e","g">> -> <<"J","P","E","G">>
      [] lowerWord = <<"g","i","f">> -> <<"G","I","F">>
      [] lowerWord = <<"p","d","f">> -> <<"P","D","F">>
      [] lowerWord = <<"z","i","p">> -> <<"Z","I","P">>
      [] lowerWord = <<"p","s","e">> -> <<"P","S","E">>
      [] lowerWord = <<"p","i","x">> -> <<"P","I","X">>
      [] lowerWord = <<"c","v","v">> -> <<"C","V","V">>
      [] lowerWord = <<"b","i","n">> -> <<"B","I","N">>
      [] lowerWord = <<"t","i","d">> -> <<"T","I","D">>
      [] lowerWord = <<"n","s","u">> -> <<"N","S","U">>
      [] lowerWord = <<"u","s","d">> -> <<"U","S","D">>
      [] lowerWord = <<"b","r","l">> -> <<"B","R","L">>
      [] lowerWord = <<"u","s">> -> <<"U","S">>
      [] lowerWord = <<"b","r">> -> <<"B","R">>
      [] lowerWord = <<"e","n">> -> <<"E","N">>
      [] lowerWord = <<"p","t">> -> <<"P","T">>
      [] lowerWord = <<"e","s">> -> <<"E","S">>
      [] lowerWord = <<"u","t","c">> -> <<"U","T","C">>
      [] lowerWord = <<"a","w","s">> -> <<"A","W","S">>
      [] lowerWord = <<"c","l","i">> -> <<"C","L","I">>
      [] lowerWord = <<"i","d","e">> -> <<"I","D","E">>
      [] lowerWord = <<"u","i">> -> <<"U","I">>
      [] lowerWord = <<"u","x">> -> <<"U","X">>
      [] lowerWord = <<"s","m","s">> -> <<"S","M","S">>
      [] lowerWord = <<"s","m","t","p">> -> <<"S","M","T","P">>
      [] lowerWord = <<"w","a","f">> -> <<"W","A","F">>
      [] lowerWord = <<"s","p","f">> -> <<"S","P","F">>
      [] lowerWord = <<"c","a","a">> -> <<"C","A","A">>
      [] lowerWord = <<"q","r">> -> <<"Q","R">>
      [] lowerWord = <<"c","e","p">> -> <<"C","E","P">>
      [] lowerWord = <<"c","n","p","j">> -> <<"C","N","P","J">>
      [] lowerWord = <<"c","p","f">> -> <<"C","P","F">>
      [] lowerWord = <<"c","n","a","m","e">> -> <<"C","N","A","M","E">>
      [] lowerWord = <<"w","m","s">> -> <<"W","M","S">>
      [] lowerWord = <<"p","i","m">> -> <<"P","I","M">>
      [] lowerWord = <<"p","o","s">> -> <<"P","O","S">>
      [] lowerWord = <<"s","s","o">> -> <<"S","S","O">>
      [] lowerWord = <<"s","a","m","l">> -> <<"S","A","M","L">>
      [] lowerWord = <<"g","d","p","r">> -> <<"G","D","P","R">>
      [] lowerWord = <<"a","s","c","i","i">> -> <<"A","S","C","I","I">>
      [] lowerWord = <<"u","t","f">> -> <<"U","T","F">>
      [] lowerWord = <<"h","e","x">> -> <<"H","E","X">>
      [] lowerWord = <<"m","c","f">> -> <<"M","C","F">>
      [] lowerWord = <<"h","a","r">> -> <<"H","A","R">>
      [] lowerWord = <<"m","b">> -> <<"M","B">>
      [] lowerWord = <<"g","b">> -> <<"G","B">>
      [] lowerWord = <<"m","m">> -> <<"M","M">>
      [] lowerWord = <<"i","p">> -> <<"I","P">>
      [] lowerWord = <<"k","i","t">> -> <<"K","I","T">>
      [] lowerWord = <<"m","e","l","i">> -> <<"M","E","L","I">>
      [] lowerWord = <<"g","t","m">> -> <<"G","T","M">>
      [] lowerWord = <<"n","p","s">> -> <<"N","P","S">>
      [] lowerWord = <<"h","u","b">> -> <<"H","U","B">>
      [] lowerWord = <<"a","d","s">> -> <<"A","D","S">>
      [] lowerWord = <<"g","m","c">> -> <<"G","M","C">>
      [] lowerWord = <<"g","e","t">> -> <<"G","E","T">>
      [] lowerWord = <<"p","o","s","t">> -> <<"P","O","S","T">>
      [] lowerWord = <<"p","u","t">> -> <<"P","U","T">>
      [] lowerWord = <<"o","k">> -> <<"O","K">>
      [] lowerWord = <<"a","n","d">> -> <<"A","N","D">>
      [] lowerWord = <<"o","r">> -> <<"O","R">>
      [] lowerWord = <<"n","e","w">> -> <<"N","E","W">>
      [] lowerWord = <<"o","l","d">> -> <<"O","L","D">>
      [] lowerWord = <<"t","r","u","e">> -> <<"T","R","U","E">>
      [] lowerWord = <<"f","a","l","s","e">> -> <<"F","A","L","S","E">>
      [] lowerWord = <<"n","u","l","l">> -> <<"N","U","L","L">>
      [] lowerWord = <<"b","e","t","a">> -> <<"B","E","T","A">>
      [] lowerWord = <<"d","r","a","f","t">> -> <<"D","R","A","F","T">>
      [] lowerWord = <<"s","p","a">> -> <<"S","P","A">>
      [] lowerWord = <<"s","d","k">> -> <<"S","D","K">>
      [] lowerWord = <<"o","r","m">> -> <<"O","R","M">>
      [] lowerWord = <<"s","q","l">> -> <<"S","Q","L">>
      [] lowerWord = <<"n","o","s","q","l">> -> <<"N","o","S","Q","L">>
      [] lowerWord = <<"t","c","p">> -> <<"T","C","P">>
      [] lowerWord = <<"u","d","p">> -> <<"U","D","P">>
      [] lowerWord = <<"f","t","p">> -> <<"F","T","P">>
      [] lowerWord = <<"s","s","h">> -> <<"S","S","H">>
      [] lowerWord = <<"v","p","n">> -> <<"V","P","N">>
      [] lowerWord = <<"d","d","o","s">> -> <<"D","D","o","S">>
      [] lowerWord = <<"c","s","r","f">> -> <<"C","S","R","F">>
      [] lowerWord = <<"x","s","s">> -> <<"X","S","S">>
      [] lowerWord = <<"c","o","r","s">> -> <<"C","O","R","S">>
      [] OTHER -> <<>>

TitleCaseWord(word) ==
    IF getAcronymCase(ToLowerCase(word)) # <<>>
    THEN getAcronymCase(ToLowerCase(word))
    ELSE [i \in 1..Len(word) |->
             IF i = 1 THEN ToUpperChar(word[i]) ELSE ToLowerChar(word[i])]

normalizeCategoryName(name) ==
    IF name = <<>> THEN <<"U","n","c","a","t","e","g","o","r","i","z","e","d">>
    ELSE LET spaced == [i \in 1..Len(name) |->
                           IF name[i] \in {"-","_"} THEN " " ELSE name[i]]
             words  == Split(spaced, " ")
         IN  Join([i \in 1..Len(words) |-> TitleCaseWord(words[i])], <<" ">>)

(***************************************************************************)
(* The two slugify functions                                               *)
(***************************************************************************)
\* the slugify package as NavigationTransformer.slugify configures it
\* (lower, strict, trim, replacement '-'): each character goes through the
\* package's character map, the replacement character becomes a space,
\* strict mode drops what is not a letter, digit or space, the text is
\* trimmed, runs of spaces become one '-', and the result is lowercased
AsciiAlnum == AsciiLower \cup AsciiUpper \cup Digits

SlugifyCharMap(c) ==
    CASE c \in AsciiAlnum -> <<c>>
      [] c \in {"à","á","â","ã","ä","å"} -> <<"a">>
      [] c \in {"è","é","ê","ë"} -> <<"e">>
      [] c \in {"ì","í","î","ï"} -> <<"i">>
      [] c \in {"ò","ó","ô","õ","ö"} -> <<"o">>
      [] c \in {"ù","ú","û","ü"} -> <<"u">>
      [] c = "ç" -> <<"c">>
      [] c = "ñ" -> <<"n">>
      [] c = "Á" -> <<"A">>
      [] c = "É" -> <<"E">>
      [] c = "Í" -> <<"I">>
      [] c = "Ó" -> <<"O">>
      [] c = "Ú" -> <<"U">>
      [] c = "Ã" -> <<"A">>
      [] c = "Õ" -> <<"O">>
      [] c = "Ç" -> <<"C">>
      [] c = "Ñ" -> <<"N">>
      [] c = "&" -> <<"a","n","d">>
      [] c \in {" ","-"} -> <<" ">>
      [] OTHER -> <<>>

slugify(text) ==
    LET mapped  == Concat([i \in 1..Len(text) |-> SlugifyCharMap(text[i])])
        trimmed == TrimSet(mapped, {" "})
        dashed  == CollapseRuns(trimmed, {" "}, "-")
    IN  ToLowerCase(dashed)

\* CrossLanguageLinker.slugify: lowercase, every run of characters outside
\* [a-z0-9] becomes one '-', leading and trailing '-' are removed
linkerSlugify(text) ==
    LET lower == ToLowerCase(text)
        bad   == Range(lower) \ (AsciiLower \cup Digits)
    IN  TrimSet(CollapseRuns(lower, bad, "-"), {"-"})

\* fileName.replace(/\.[^/.]+$/, ''): drop a final extension
StripExtension(fileName) ==
    IF \E i \in 1..(Len(fileName) - 1) :
           /\ fileName[i] = "."
           /\ \A k \in (i+1)..Len(fileName) : fileName[k] \notin {".", "/"}
    THEN LET i == CHOOSE j \in 1..(Len(fileName) - 1) :
                      /\ fileName[j] = "."
                      /\ \A k \in (j+1)..Len(fileName) : fileName[k] \notin {".", "/"}
         IN  SubSeq(fileName, 1, i - 1)
    ELSE fileName

generateSlugFromFilename(fileName) == slugify(StripExtension(fileName))

linkerGenerateSlugFromFilename(fileName) == linkerSlugify(StripExtension(fileName))

(***************************************************************************)
(* Data model                                                              *)
(*   ContentFile: [id, language, section, dir, fileName, title, slugEN,    *)
(*                 legacySlug, order, status]                              *)
(*     id        stands for the file's path (unique per file)              *)
(*     dir       the folder names of relativePath, outermost first         *)
(*     slugEN    the cross-language key; "" when the frontmatter lacks it  *)
(*     legacySlug, title: text, <<>> when absent                           *)
(*     order     <<>> when absent, <<n>> when the frontmatter has a number *)
(*   A sidecar is the metadata.json (or legacy order.json) of a folder:    *)
(*     [language, section, dir, name, order, legacy]                       *)
(***************************************************************************)
Languages == <<"en", "es", "pt">>

LangSet == {"en", "es", "pt"}

VARIABLES
    repo,          \* the content files on disk (a set)
    sidecars,      \* the metadata.json / order.json files on disk (a set)
    options,       \* [showWarnings, validate, strict]
    pc,            \* phase of SimpleNavigationGenerator.generate
    files,         \* scanResult.files
    hierarchy,     \* hierarchy.sections: sequence of [section, map]
    crossLanguageMap, \* hierarchy.crossLanguageMap: sequence of documents
    navbar,        \* navigationData.navbar
    diagnostics,   \* warnings the run has emitted (logger.warn and lists)
    validation,    \* the ValidationResult
    written,       \* TRUE once the output file has been written
    cachedConfig,  \* sections.config: the module-level cachedConfig
    run,           \* number of the generate run in this process
    validateRun    \* the last run of the validate command

vars == <<repo, sidecars, options, pc, files, hierarchy, crossLanguageMap,
          navbar, diagnostics, validation, written, cachedConfig, run,
          validateRun>>

\* a loop over a list that carries a value from one element to the next
FoldLeft(Op(_, _), init, seq) ==
    LET F[i \in 0..Len(seq)] ==
            IF i = 0 THEN init ELSE Op(F[i-1], seq[i])
    IN  F[Len(seq)]

\* first element of a sequence satisfying a test, as Array.prototype.find;
\* <<>> stands for undefined, <<x>> for a hit
FindFirst(seq, Test(_)) ==
    IF \E i \in 1..Len(seq) : Test(seq[i])
    THEN <<seq[CHOOSE i \in 1..Len(seq) :
                  Test(seq[i]) /\ \A k \in 1..(i-1) : ~Test(seq[k])]>>
    ELSE <<>>

\* the distinct values of Key over a sequence, in order of first appearance
\* (the key order of a JavaScript object or Map filled in that order)
KeysInOrder(seq, Key(_)) ==
    LET F[i \in 0..Len(seq)] ==
            IF i = 0 THEN <<>>
            ELSE IF \E k \in 1..(i-1) : Key(seq[k]) = Key(seq[i])
                 THEN F[i-1]
                 ELSE Append(F[i-1], Key(seq[i]))
    IN  F[Len(seq)]

(***************************************************************************)
(* ContentScanner                                                          *)
(***************************************************************************)
\* a parseMarkdownFile that looks at the status only and keeps a file
\* whatever its frontmatter lacks
AcceptedWithoutRequired(f) == f.status \in {"", "PUBLISHED"}

\* parseMarkdownFile: a file is accepted when it has a title and a slugEN
\* and is not marked with a status other than PUBLISHED
Accepted(f) ==
    /\ f.title # <<>>
    /\ f.slugEN # ""
    /\ f.status \in {"", "PUBLISHED"}

MissingRequired(f) == f.title = <<>> \/ f.slugEN = ""

\* position of a file in the directory tree: language, section, folders
TreePath(f) == <<<<f.language>>, <<f.section>>>> \o f.dir

IsPrefix(q, t) == Len(q) <= Len(t) /\ SubSeq(t, 1, Len(q)) = q

LangIndex(l) == CHOOSE i \in 1..Len(Languages) : Languages[i] = l

\* The orders in which scan() can return a set of files: languages in the
\* order of options.languages, and below a language a depth-first walk
\* (walkDirectory), where readdir may list the entries of a directory in
\* any order: the files below any one directory are contiguous.
IsWalkOrder(seq) ==
    /\ \A i, j \in 1..Len(seq) :
           i < j => LangIndex(seq[i].language) <= LangIndex(seq[j].language)
    /\ \A i, j \in 1..Len(seq) : \A n \in 1..Len(TreePath(seq[i])) :
           LET q == SubSeq(TreePath(seq[i]), 1, n)
           IN  (i < j /\ IsPrefix(q, TreePath(seq[j]))) =>
                   \A k \in i..j : IsPrefix(q, TreePath(seq[k]))

OrderingsOf(S) ==
    {p \in [1..Cardinality(S) -> S] :
        \A i, j \in 1..Cardinality(S) : i # j => p[i] # p[j]}

WalkOrders(S) == {p \in OrderingsOf(S) : IsWalkOrder(p)}

(***************************************************************************)
(* Ordering of text: String.prototype.localeCompare                        *)
(***************************************************************************)
\* primary collation weight of a character: spaces and punctuation sort
\* before digits, digits before letters; case and accents do not count
CollationOrder ==
    <<" ", "_", "-", ".", "!", "&",
      "0","1","2","3","4","5","6","7","8","9",
      "a","b","c","d","e","f","g","h","i","j","k","l","m","n","o","p","q",
      "r","s","t","u","v","w","x","y","z">>

WeightOf ==
    [b \in Range(CollationOrder) |->
        CHOOSE i \in 1..Len(CollationOrder) : CollationOrder[i] = b]

PrimaryWeight(c) ==
    LET b == StripAccentChar(ToLowerChar(c))
    IN  IF b \in DOMAIN WeightOf THEN WeightOf[b] ELSE 0

\* tie-breaking weight: unaccented before accented, lower case before upper
SecondaryWeight(c) ==
    (IF StripAccentChar(ToLowerChar(c)) # ToLowerChar(c) THEN 2 ELSE 0)
    + (IF ToLowerChar(c) # c THEN 1 ELSE 0)

CompareBy(a, b, W(_)) ==
    LET n    == IF Len(a) < Len(b) THEN Len(a) ELSE Len(b)
        diff == {i \in 1..n : W(a[i]) # W(b[i])}
    IN  IF diff # {}
        THEN LET i == CHOOSE d \in diff : \A e \in diff : d <= e
             IN  IF W(a[i]) < W(b[i]) THEN -1 ELSE 1
        ELSE IF Len(a) < Len(b) THEN -1
        ELSE IF Len(a) > Len(b) THEN 1
        ELSE 0

localeCompare(a, b) ==
    IF CompareBy(a, b, PrimaryWeight) # 0
    THEN CompareBy(a, b, PrimaryWeight)
    ELSE CompareBy(a, b, SecondaryWeight)

\* Array.prototype.sort with a comparator: a stable sort
InsertSorted(sorted, x, Cmp(_, _)) ==
    LET notAfter == {i \in 1..Len(sorted) : Cmp(x, sorted[i]) >= 0}
        k == IF notAfter = {} THEN 0
             ELSE CHOOSE i \in notAfter : \A j \in notAfter : j <= i
    IN  SubSeq(sorted, 1, k) \o <<x>> \o SubSeq(sorted, k + 1, Len(sorted))

StableSort(seq, Cmp(_, _)) ==
    LET F[i \in 0..Len(seq)] ==
            IF i = 0 THEN <<>> ELSE InsertSorted(F[i-1], seq[i], Cmp)
    IN  F[Len(seq)]

(***************************************************************************)
(* CategoryBuilder                                                         *)
(***************************************************************************)
SectionsOf(fs) == KeysInOrder(fs, LAMBDA f : f.section)

groupFilesBySection(fs, section) == SelectSeq(fs, LAMBDA f : f.section = section)

groupFilesByLanguage(fs, language) == SelectSeq(fs, LAMBDA f : f.language = language)

extractCanonicalCategoryPath(canonicalFile) ==
    [i \in 1..Len(canonicalFile.dir) |->
        normalizeCanonicalSegment(canonicalFile.dir[i])]

\* the file whose folders give the canonical path of a file: the English
\* file of the same section and slugEN, else the Spanish, else the
\* Portuguese one, else the file itself
ReferenceFile(file, allFiles) ==
    IF file.language = "en" THEN file
    ELSE LET variant(lang) ==
                 FindFirst(allFiles, LAMBDA f : /\ f.language = lang
                                                /\ f.section = file.section
                                                /\ f.slugEN = file.slugEN)
         IN  IF variant("en") # <<>> THEN variant("en")[1]
             ELSE IF variant("es") # <<>> THEN variant("es")[1]
             ELSE IF variant("pt") # <<>> THEN variant("pt")[1]
             ELSE file

extractUnifiedCanonicalPath(file, allFiles) ==
    extractCanonicalCategoryPath(ReferenceFile(file, allFiles))

\* canonicalSegments.join('/'), "" when there are no segments
JoinPath(canonicalSegments) ==
    IF Len(canonicalSegments) = 0 THEN <<>>
    ELSE Join(canonicalSegments, <<"/">>)

\* the full path of a file inside its section, "" when the file is skipped
FullPathOf(file, allFiles) ==
    JoinPath(extractUnifiedCanonicalPath(file, allFiles))

\* the files grouped by their full path (pathOf[i] is that of fs[i]):
\* sequence of [fullPath, files], in order of first appearance
GroupByPath(fs, pathOf) ==
    LET keptIdx == SelectSeq([i \in 1..Len(fs) |-> i], LAMBDA i : pathOf[i] # <<>>)
        paths == KeysInOrder(keptIdx, LAMBDA i : pathOf[i])
        group(fullPath) == SelectSeq(keptIdx, LAMBDA i : pathOf[i] = fullPath)
    IN  [i \in 1..Len(paths) |->
            [fullPath |-> paths[i],
             files    |-> [j \in 1..Len(group(paths[i])) |-> fs[group(paths[i])[j]]]
                          \o <<>>]] \o <<>>

groupFilesByUnifiedHierarchicalPath(fs) ==
    GroupByPath(fs, [i \in 1..Len(fs) |-> FullPathOf(fs[i], fs)] \o <<>>)

\* readCategoryMetadata: [metadata, name, order] read in the folder; a
\* metadata.json gives metadata (and its order when numeric), a legacy
\* order.json gives only an order
NoMetadata == [metadata |-> FALSE, name |-> <<>>, order |-> <<>>]

readCategoryMetadata(language, section, dir) ==
    IF \E m \in sidecars : /\ m.language = language /\ m.section = section
                           /\ m.dir = dir /\ ~m.legacy
    THEN LET m == CHOOSE x \in sidecars : /\ x.language = language
                                          /\ x.section = section
                                          /\ x.dir = dir /\ ~x.legacy
         IN  [metadata |-> TRUE, name |-> m.name, order |-> m.order]
    ELSE IF \E m \in sidecars : /\ m.language = language /\ m.section = section
                                /\ m.dir = dir /\ m.legacy /\ m.order # <<>>
    THEN LET m == CHOOSE x \in sidecars : /\ x.language = language
                                          /\ x.section = section
                                          /\ x.dir = dir /\ x.legacy
         IN  [metadata |-> FALSE, name |-> <<>>, order |-> m.order]
    ELSE NoMetadata

\* a metadata.json counts, a legacy order.json does not
MetadataOnly(result) == IF result.metadata THEN result ELSE NoMetadata

\* the folder of a file, cut to the level's depth
RelevantSegments(sampleFile, depth) ==
    SubSeq(sampleFile.dir, 1,
           IF depth < Len(sampleFile.dir) THEN depth ELSE Len(sampleFile.dir))

\* the metadata read for one language at a category level: the folder is
\* that of the first file of the language, cut to the level's depth
SampleMetadata(languageFiles, depth) ==
    IF languageFiles = <<>> THEN NoMetadata
    ELSE MetadataOnly(readCategoryMetadata(languageFiles[1].language,
                                           languageFiles[1].section,
                                           RelevantSegments(languageFiles[1], depth)))

LanguageMetadata(language, depth, fs) ==
    SampleMetadata(groupFilesByLanguage(fs, language), depth)

\* the order of a category: that of the first language, en first, whose
\* metadata gives one
LocalizedMetadataResult(meta) ==
    [order |-> IF meta["en"].order # <<>> THEN meta["en"].order
               ELSE IF meta["es"].order # <<>> THEN meta["es"].order
               ELSE meta["pt"].order,
     localizedMetadata |-> meta]

\* readLocalizedCategoryMetadata: [order, localizedMetadata]
readLocalizedCategoryMetadata(depth, fs) ==
    LocalizedMetadataResult([l \in LangSet |-> LanguageMetadata(l, depth, fs)])

\* extractLocalizedFolderName: the file's own folder name at the level,
\* in display case; the canonical segment when the file is not that deep
extractLocalizedFolderName(file, pathSegment, depth) ==
    normalizeCategoryName(
        IF depth >= 1 /\ depth <= Len(file.dir) /\ file.dir[depth] # <<>>
        THEN file.dir[depth]
        ELSE pathSegment)

\* the name a language gets from metadata.json: its own, else the English
\* one, else that of the first language with metadata; "" without metadata
NameFromMetadata(meta, l) ==
    IF \A x \in LangSet : ~meta[x].metadata THEN <<>>
    ELSE IF meta[l].metadata /\ meta[l].name # <<>> THEN meta[l].name
    ELSE IF meta["en"].metadata /\ meta["en"].name # <<>> THEN meta["en"].name
    ELSE meta[Languages[CHOOSE i \in 1..Len(Languages) :
                  /\ meta[Languages[i]].metadata
                  /\ \A k \in 1..(i-1) : ~meta[Languages[k]].metadata]].name

\* the file whose folder names a category in a language: the first file of
\* the language, else the first English file; <<>> when there is neither
NamingFile(languageFiles, englishFiles) ==
    IF languageFiles # <<>> THEN <<languageFiles[1]>>
    ELSE IF englishFiles # <<>> THEN <<englishFiles[1]>>
    ELSE <<>>

\* the name a language gets from the folder names
NameFromFolder(namingFile, pathSegment, depth) ==
    IF namingFile # <<>>
    THEN extractLocalizedFolderName(namingFile[1], pathSegment, depth)
    ELSE normalizeCategoryName(pathSegment)

FirstName(fromMeta, fromFolder) == IF fromMeta # <<>> THEN fromMeta ELSE fromFolder

LocalizedNames(meta, pathSegment, fs, depth) ==
    [l \in LangSet |->
        FirstName(NameFromMetadata(meta, l),
                  NameFromFolder(NamingFile(groupFilesByLanguage(fs, l),
                                            groupFilesByLanguage(fs, "en")),
                                 pathSegment, depth))]

\* createLocalizedCategoryNameForPath: names from metadata.json when every
\* language gets one, else from the folder names
createLocalizedCategoryNameForPath(pathSegment, fs, depth) ==
    LocalizedNames(readLocalizedCategoryMetadata(depth, fs).localizedMetadata,
                   pathSegment, fs, depth)

\* the comparator of sortTrackArticles, and of the transformer's sorts in
\* the tracks section, on two optional orders and two titles
OrderThenTitle(orderA, orderB, titleA, titleB) ==
    IF orderA # <<>> /\ orderB # <<>> THEN orderA[1] - orderB[1]
    ELSE IF orderA # <<>> THEN -1
    ELSE IF orderB # <<>> THEN 1
    ELSE localeCompare(titleA, titleB)

sortTrackArticles(fs, section) ==
    IF section # "tracks" THEN fs
    ELSE StableSort(fs, LAMBDA a, b : OrderThenTitle(a.order, b.order, a.title, b.title))

HasPath(map, levelPath) == \E k \in 1..Len(map) : map[k].path = levelPath

IndexOfPath(map, levelPath) == CHOOSE k \in 1..Len(map) : map[k].path = levelPath

\* the depth at which a new category reads its order
MetadataDepth(sampleFile, level) ==
    IF level < Len(sampleFile.dir) THEN level ELSE Len(sampleFile.dir)

NewCategory(levelPath, pathPart, level, isLeafLevel, fs, section) ==
    [path  |-> levelPath,
     name  |-> createLocalizedCategoryNameForPath(pathPart, fs, level),
     kind  |-> IF isLeafLevel THEN "files" ELSE "map",
     files |-> IF isLeafLevel THEN sortTrackArticles(fs, section) ELSE <<>>,
     cats  |-> <<>>,
     level |-> level,
     order |-> readLocalizedCategoryMetadata(MetadataDepth(fs[1], level), fs).order]

\* one step of the loop of buildNestedCategoryFromPath: the category of
\* the level is created when the map lacks it; a leaf level that exists
\* with files gets the group's files added
EnsureLevel(currentMap, levelPath, pathPart, i, isLeafLevel, fs, section) ==
    IF ~HasPath(currentMap, levelPath)
    THEN Append(currentMap,
                NewCategory(levelPath, pathPart, i, isLeafLevel, fs, section))
    ELSE IF isLeafLevel /\ currentMap[IndexOfPath(currentMap, levelPath)].kind = "files"
    THEN [currentMap EXCEPT ![IndexOfPath(currentMap, levelPath)].files =
              sortTrackArticles(@ \o fs, section)]
    ELSE currentMap

RECURSIVE BuildLevels(_, _, _, _, _, _)
\* the move to the next level: into the children of the level's category
\* when they are a map, else the loop stays in the map it is in
NextLevel(created, levelPath, pathParts, i, fs, section) ==
    IF i = Len(pathParts) THEN created
    ELSE IF created[IndexOfPath(created, levelPath)].kind = "map"
    THEN [created EXCEPT ![IndexOfPath(created, levelPath)].cats =
              BuildLevels(@, levelPath, pathParts, i + 1, fs, section)]
    ELSE BuildLevels(created, levelPath, pathParts, i + 1, fs, section)

\* buildNestedCategoryFromPath from level i on: currentMap is the map the
\* loop is in and currentPath the path of the level above
BuildLevels(currentMap, currentPath, pathParts, i, fs, section) ==
    NextLevel(EnsureLevel(currentMap, currentPath \o <<"/">> \o pathParts[i],
                          pathParts[i], i, i = Len(pathParts), fs, section),
              currentPath \o <<"/">> \o pathParts[i], pathParts, i, fs, section)

buildNestedCategoryFromPath(categoryMap, section, fullPath, fs) ==
    BuildLevels(categoryMap, <<section>>, Split(fullPath, "/"), 1, fs, section)

buildUnifiedCategories(section, fs) ==
    FoldLeft(LAMBDA categoryMap, group :
                 buildNestedCategoryFromPath(categoryMap, section,
                                             group.fullPath, group.files),
             <<>>, groupFilesByUnifiedHierarchicalPath(fs))

\* buildHierarchy: one category map per section, in order of appearance
buildHierarchy(fs) ==
    LET sections == SectionsOf(fs)
    IN  [i \in 1..Len(sections) |->
            [section |-> sections[i],
             map     |-> buildUnifiedCategories(sections[i],
                                                groupFilesBySection(fs, sections[i]))]]

(***************************************************************************)
(* CrossLanguageLinker                                                     *)
(***************************************************************************)
\* the last element of a sequence satisfying a test: what repeated
\* assignment to one slot leaves in it
FindLast(seq, Test(_)) ==
    IF \E i \in 1..Len(seq) : Test(seq[i])
    THEN <<seq[CHOOSE i \in 1..Len(seq) :
                  Test(seq[i]) /\ \A k \in (i+1)..Len(seq) : ~Test(seq[k])]>>
    ELSE <<>>

\* the slug the linker stores for a file: legacySlug, else from the file name
LinkerSlugOf(file) ==
    IF file.legacySlug # <<>> THEN file.legacySlug
    ELSE linkerGenerateSlugFromFilename(file.fileName)

\* the file whose values a language slot ends up with: every file of the
\* language assigns the slot in turn
SlotFile(slugFiles, lang) == FindLast(slugFiles, LAMBDA f : f.language = lang)

\* fillMissingLanguageFallbacks: the first language present, en first
FallbackLang(slugFiles) ==
    Languages[CHOOSE i \in 1..Len(Languages) :
                  /\ SlotFile(slugFiles, Languages[i]) # <<>>
                  /\ \A k \in 1..(i-1) : SlotFile(slugFiles, Languages[k]) = <<>>]

FallbackTitle(slugFiles) == SlotFile(slugFiles, FallbackLang(slugFiles))[1].title

\* createCrossLanguageDocument followed by fillMissingLanguageFallbacks
createCrossLanguageDocument(slugEN, slugFiles) ==
    [slugEN |-> slugEN,
     present |-> [l \in LangSet |-> SlotFile(slugFiles, l) # <<>>],
     title |-> [l \in LangSet |->
                   IF SlotFile(slugFiles, l) # <<>> /\ SlotFile(slugFiles, l)[1].title # <<>>
                   THEN SlotFile(slugFiles, l)[1].title
                   ELSE FallbackTitle(slugFiles)],
     slug  |-> [l \in LangSet |->
                   IF SlotFile(slugFiles, l) # <<>>
                   THEN LinkerSlugOf(SlotFile(slugFiles, l)[1])
                   ELSE <<>>]]

\* buildCrossLanguageMap: one document per slugEN, over the files of all
\* sections together
buildCrossLanguageMap(fs) ==
    LET keyed == SelectSeq(fs, LAMBDA f : f.slugEN # "")
    IN  [k \in {keyed[i].slugEN : i \in 1..Len(keyed)} |->
            createCrossLanguageDocument(k, SelectSeq(keyed, LAMBDA f : f.slugEN = k))]

(***************************************************************************)
(* NavigationTransformer                                                   *)
(*   node: [type, name, slug, children, order, ref]                        *)
(*     ref   for a document built from the cross-language map, its slugEN: *)
(*           the node's name is the title object of that map entry, shared *)
(*           by every node built from the entry; "" otherwise              *)
(*   ctx:  [processed, titles, diags] threaded through the build:          *)
(*     processed  sectionProcessedSlugs                                    *)
(*     titles     the title objects of the cross-language map              *)
(*     diags      the warnings emitted so far                              *)
(***************************************************************************)
EmptyLocalized == [l \in LangSet |-> <<>>]

Diag(kind, section, language, slugEN, paths) ==
    [kind |-> kind, section |-> section, language |-> language,
     slugEN |-> slugEN, paths |-> paths]

\* getDocumentSlug returns the file-name slug; it warns when the
\* frontmatter legacySlug differs from it
getDocumentSlug(file) == generateSlugFromFilename(file.fileName)

SlugMismatch(file) ==
    file.legacySlug # <<>> /\ file.legacySlug # generateSlugFromFilename(file.fileName)

MismatchDiagsOf(bad) ==
    [i \in 1..Len(bad) |->
        Diag("SLUG_MISMATCH", bad[i].section, bad[i].language,
             bad[i].slugEN, <<bad[i].id>>)]

MismatchDiags(fs) == MismatchDiagsOf(SelectSeq(fs, SlugMismatch))

\* the conflict loop of generateLocalizedCategorySlugs
RECURSIVE ResolveConflict(_, _, _)
ResolveConflict(candidate, taken, iterations) ==
    IF candidate \in taken /\ iterations < 3
    THEN ResolveConflict(candidate \o <<"-","c","a","t","e","g","o","r","y">>,
                         taken, iterations + 1)
    ELSE candidate

FirstNonEmpty(a, b, c) ==
    IF a # <<>> THEN a ELSE IF b # <<>> THEN b ELSE IF c # <<>> THEN c
    ELSE <<"c","a","t","e","g","o","r","y">>

\* the slug of each locale, from the name of the locale or a fallback
BaseSlugs(name) ==
    [en |-> slugify(FirstNonEmpty(name.en, name.es, name.pt)),
     es |-> slugify(FirstNonEmpty(name.es, name.en, name.pt)),
     pt |-> slugify(FirstNonEmpty(name.pt, name.en, name.es))]

\* the slugs of the documents of a locale directly below the category
ChildSlugs(childFiles, loc) ==
    {getDocumentSlug(childFiles[i]) :
        i \in {j \in 1..Len(childFiles) : childFiles[j].language = loc}}

\* a leaf category's slug is moved away from the slugs of its documents
ResolvedSlugs(slugs, isLeaf, childFiles) ==
    IF isLeaf
    THEN [loc \in LangSet |->
             ResolveConflict(slugs[loc], ChildSlugs(childFiles, loc), 0)]
    ELSE slugs

generateLocalizedCategorySlugs(name, isLeaf, childFiles) ==
    ResolvedSlugs(BaseSlugs(name), isLeaf, childFiles)

buildDocumentNode(file, titles, clm) ==
    IF file.slugEN \in DOMAIN clm
    THEN [type |-> "markdown", name |-> titles[file.slugEN],
          slug |-> clm[file.slugEN].slug, children |-> <<>>,
          order |-> file.order, ref |-> file.slugEN]
    ELSE [type |-> "markdown",
          name |-> [l \in LangSet |-> IF l = file.language THEN file.title ELSE <<>>],
          slug |-> [l \in LangSet |-> IF l = file.language THEN getDocumentSlug(file)
                                      ELSE <<>>],
          children |-> <<>>, order |-> file.order, ref |-> ""]

EnglishTitle(node) == ToLowerCase(node.name.en)

CompareTitles(sectionName, orderA, orderB, titleA, titleB) ==
    IF sectionName = "tracks"
    THEN OrderThenTitle(orderA, orderB, titleA, titleB)
    ELSE localeCompare(titleA, titleB)

CompareNodes(a, b, sectionName) ==
    CompareTitles(sectionName, a.order, b.order, EnglishTitle(a), EnglishTitle(b))

sortDocumentNodes(nodes, sectionName) ==
    StableSort(nodes, LAMBDA a, b : CompareNodes(a, b, sectionName))

sortCategoryNodes(nodes, sectionName) ==
    StableSort(nodes, LAMBDA a, b : CompareNodes(a, b, sectionName))

\* decimal digits of a positive number
RECURSIVE NumText(_)
NumText(n) ==
    LET digit == <<"0","1","2","3","4","5","6","7","8","9">>[(n % 10) + 1]
    IN  IF n < 10 THEN <<digit>> ELSE Append(NumText(n \div 10), digit)

\* name.match(/^\d+\./)
HasNumericPrefix(t) ==
    \E i \in 2..Len(t) : t[i] = "." /\ \A k \in 1..(i-1) : t[k] \in Digits

\* a prefix written whether or not the title has one already
PrefixedTitleUnguarded(title, orderNumber) ==
    IF TrimSet(title, {" "}) # <<>>
    THEN NumText(orderNumber) \o <<".", " ">> \o title
    ELSE title

\* the title of an article after the pass: the prefix is written unless the
\* title is blank or starts with digits and a dot
PrefixedTitle(title, orderNumber) ==
    IF TrimSet(title, {" "}) # <<>> /\ ~HasNumericPrefix(title)
    THEN NumText(orderNumber) \o <<".", " ">> \o title
    ELSE title

\* addOrderNumbersToArticleNames: the names of the article nodes after the
\* pass, each numbered by its position among the articles of the list
addOrderNumbersToArticleNames(nodes) ==
    LET articleIdx == {i \in 1..Len(nodes) : nodes[i].type = "markdown"}
        position(i) == Cardinality({j \in articleIdx : j <= i})
    IN  [i \in 1..Len(nodes) |->
            IF i \in articleIdx
            THEN [nodes[i] EXCEPT !.name =
                     [l \in LangSet |-> PrefixedTitle(nodes[i].name[l], position(i))]]
            ELSE nodes[i]]

\* the shared title objects after a list of nodes has been renamed
WriteTitles(titles, nodes) ==
    [k \in DOMAIN titles |->
        IF \E i \in 1..Len(nodes) : nodes[i].ref = k
        THEN nodes[CHOOSE i \in 1..Len(nodes) : nodes[i].ref = k].name
        ELSE titles[k]]

\* the groups of files with the same language and slugEN that have more
\* than one member, in order of first appearance
DuplicateGroups(fs) ==
    LET keys == KeysInOrder(fs, LAMBDA f : <<f.language, f.slugEN>>)
        group(k) == SelectSeq(fs, LAMBDA f : <<f.language, f.slugEN>> = k)
        many == SelectSeq(keys, LAMBDA k : Len(group(k)) > 1)
    IN  [i \in 1..Len(many) |-> group(many[i])]

DuplicateDiagsOf(groups, sectionName) ==
    [i \in 1..Len(groups) |->
        Diag("TRUE_DUPLICATE", sectionName, groups[i][1].language,
             groups[i][1].slugEN,
             [j \in 1..Len(groups[i]) |-> groups[i][j].id])]

DuplicateDiags(fs, sectionName) == DuplicateDiagsOf(DuplicateGroups(fs), sectionName)

\* the second pass of buildDocumentNodes: one node per slugEN, built from
\* the first file of the slugEN, unless the section has the slugEN already
CollectDocumentNodes(fs, clm, ctx) ==
    FoldLeft(LAMBDA prev, slugEN :
                 IF slugEN \in prev.processed THEN prev
                 ELSE [nodes |-> Append(prev.nodes,
                                        buildDocumentNode(
                                            FindFirst(fs, LAMBDA f : f.slugEN = slugEN)[1],
                                            ctx.titles, clm)),
                       processed |-> prev.processed \cup {slugEN}],
             [nodes |-> <<>>, processed |-> ctx.processed],
             KeysInOrder(fs, LAMBDA f : f.slugEN))

\* the articles of a track are numbered in their sorted order
NameDocumentNodes(sorted, sectionName) ==
    IF sectionName = "tracks" THEN addOrderNumbersToArticleNames(sorted) ELSE sorted

DocumentNodesResult(named, processed, fs, ctx, sectionName, showWarnings) ==
    [nodes |-> named,
     ctx |-> [processed |-> processed,
              titles |-> WriteTitles(ctx.titles, named),
              diags |-> ctx.diags \o
                        (IF showWarnings THEN DuplicateDiags(fs, sectionName)
                         ELSE <<>>)]]

\* the end of buildDocumentNodes: sort, number, report
FinishDocumentNodes(built, fs, ctx, sectionName, showWarnings) ==
    DocumentNodesResult(
        NameDocumentNodes(sortDocumentNodes(built.nodes, sectionName), sectionName),
        built.processed, fs, ctx, sectionName, showWarnings)

buildDocumentNodes(fs, clm, ctx, sectionName, showWarnings) ==
    FinishDocumentNodes(CollectDocumentNodes(fs, clm, ctx),
                        fs, ctx, sectionName, showWarnings)

\* the key mergeCategoryNodeLists and dedupeDocs group by: the English
\* slug, or the whole slug object (JSON.stringify) when that is empty
SlugKey(slug) ==
    IF slug.en # <<>> THEN <<"en", slug.en>>
    ELSE <<"json", slug.en, slug.es, slug.pt>>

mergeNames(target, src) ==
    [l \in LangSet |-> IF target[l] = <<>> /\ src[l] # <<>> THEN src[l] ELSE target[l]]

\* first document of each slug key, in order
dedupeDocs(items) ==
    LET docs == SelectSeq(items, LAMBDA it : it.type = "markdown")
        F[i \in 0..Len(docs)] ==
            IF i = 0 THEN <<>>
            ELSE LET prev == F[i-1]
                 IN  IF \E k \in 1..Len(prev) :
                            SlugKey(prev[k].slug) = SlugKey(docs[i].slug)
                     THEN prev
                     ELSE Append(prev, docs[i])
    IN  F[Len(docs)]

\* a merge that collects the merged categories in front of the list
\* instead of behind it
RECURSIVE mergeCategoryNodeListsPrepending(_)
mergeCategoryNodeListsPrepending(nodes) ==
    LET cats == SelectSeq(nodes, LAMBDA n : n.type = "category")
        F[i \in 0..Len(cats)] ==
            IF i = 0 THEN <<>>
            ELSE LET bySlug == F[i-1]
                     node   == cats[i]
                     hit    == {k \in 1..Len(bySlug) :
                                   SlugKey(bySlug[k].slug) = SlugKey(node.slug)}
                 IN  IF hit = {} THEN <<node>> \o bySlug
                     ELSE LET k == CHOOSE x \in hit : TRUE
                              existing == bySlug[k]
                              mergedChildren == existing.children \o node.children
                              categoryChildren ==
                                  SelectSeq(mergedChildren, LAMBDA ch : ch.type = "category")
                              docChildren ==
                                  SelectSeq(mergedChildren, LAMBDA ch : ch.type = "markdown")
                          IN  [bySlug EXCEPT ![k] =
                                  [existing EXCEPT
                                     !.name = mergeNames(existing.name, node.name),
                                     !.children =
                                         mergeCategoryNodeListsPrepending(categoryChildren)
                                         \o dedupeDocs(docChildren)]]
    IN  F[Len(cats)]

\* a merge that, on a collision, keeps the merged subcategories and loses
\* the documents
RECURSIVE mergeCategoryNodeListsLosingDocs(_)
mergeCategoryNodeListsLosingDocs(nodes) ==
    LET cats == SelectSeq(nodes, LAMBDA n : n.type = "category")
        F[i \in 0..Len(cats)] ==
            IF i = 0 THEN <<>>
            ELSE LET bySlug == F[i-1]
                     node   == cats[i]
                     hit    == {k \in 1..Len(bySlug) :
                                   SlugKey(bySlug[k].slug) = SlugKey(node.slug)}
                 IN  IF hit = {} THEN Append(bySlug, node)
                     ELSE LET k == CHOOSE x \in hit : TRUE
                              existing == bySlug[k]
                              mergedChildren == existing.children \o node.children
                              categoryChildren ==
                                  SelectSeq(mergedChildren, LAMBDA ch : ch.type = "category")
                          IN  [bySlug EXCEPT ![k] =
                                  [existing EXCEPT
                                     !.name = mergeNames(existing.name, node.name),
                                     !.children =
                                         mergeCategoryNodeListsLosingDocs(categoryChildren)]]
    IN  F[Len(cats)]

\* no merge at all: every category node is kept as built
mergeCategoryNodeListsUnmerged(nodes) ==
    SelectSeq(nodes, LAMBDA n : n.type = "category")

RECURSIVE mergeCategoryNodeLists(_)
mergeCategoryNodeLists(nodes) ==
    LET cats == SelectSeq(nodes, LAMBDA n : n.type = "category")
        F[i \in 0..Len(cats)] ==
            IF i = 0 THEN <<>>
            ELSE LET bySlug == F[i-1]
                     node   == cats[i]
                     hit    == {k \in 1..Len(bySlug) :
                                   SlugKey(bySlug[k].slug) = SlugKey(node.slug)}
                 IN  IF hit = {} THEN Append(bySlug, node)
                     ELSE LET k == CHOOSE x \in hit : TRUE
                              existing == bySlug[k]
                              mergedChildren == existing.children \o node.children
                              categoryChildren ==
                                  SelectSeq(mergedChildren, LAMBDA ch : ch.type = "category")
                              docChildren ==
                                  SelectSeq(mergedChildren, LAMBDA ch : ch.type = "markdown")
                          IN  [bySlug EXCEPT ![k] =
                                  [existing EXCEPT
                                     !.name = mergeNames(existing.name, node.name),
                                     !.children =
                                         mergeCategoryNodeLists(categoryChildren)
                                         \o dedupeDocs(docChildren)]]
    IN  F[Len(cats)]

CategoryNode(name, slug, children, order) ==
    [type |-> "category", name |-> name, slug |-> slug, children |-> children,
     order |-> order, ref |-> ""]

RECURSIVE buildCategoryNodes(_, _, _, _, _)
RECURSIVE buildNavigationNode(_, _, _, _, _)

\* the context with warnings added
WithDiags(ctx, diags) == [ctx EXCEPT !.diags = @ \o diags]

\* the category node around the nodes built below it; none when there are
\* no nodes below
NodeAround(name, slug, order, built) ==
    [node |-> IF built.nodes = <<>> THEN <<>>
              ELSE <<CategoryNode(name, slug, built.nodes, order)>>,
     ctx |-> built.ctx]

\* buildNavigationNode: [node, ctx], node <<>> when the category is pruned
buildNavigationNode(categoryInfo, clm, ctx, sectionName, showWarnings) ==
    NodeAround(categoryInfo.name,
               generateLocalizedCategorySlugs(categoryInfo.name,
                                              categoryInfo.kind = "files",
                                              categoryInfo.files),
               IF categoryInfo.kind = "files" THEN categoryInfo.order ELSE <<>>,
               IF categoryInfo.kind = "files"
               THEN buildDocumentNodes(categoryInfo.files, clm,
                                       WithDiags(ctx, MismatchDiags(categoryInfo.files)),
                                       sectionName, showWarnings)
               ELSE buildCategoryNodes(categoryInfo.cats, clm, ctx,
                                       sectionName, showWarnings))

\* the nodes built so far with the node of one more category
AppendBuilt(prev, r) == [nodes |-> prev.nodes \o r.node, ctx |-> r.ctx]

\* the end of buildCategoryNodes: drop the empty nodes, merge, sort
FinishCategoryNodes(built, sectionName) ==
    [nodes |-> sortCategoryNodes(
                   mergeCategoryNodeLists(
                       SelectSeq(built.nodes, LAMBDA n : Len(n.children) > 0)),
                   sectionName),
     ctx |-> built.ctx]

\* buildCategoryNodes: build every category of the map, drop the empty
\* ones, merge by English slug, sort
buildCategoryNodes(categoryMap, clm, ctx, sectionName, showWarnings) ==
    FinishCategoryNodes(
        FoldLeft(LAMBDA prev, categoryInfo :
                     AppendBuilt(prev,
                                 buildNavigationNode(categoryInfo, clm, prev.ctx,
                                                     sectionName, showWarnings)),
                 [nodes |-> <<>>, ctx |-> ctx],
                 categoryMap),
        sectionName)

\* every node whose name is a shared title object shows the object's
\* final content
RECURSIVE ResolveNames(_, _)
ResolveNames(nodes, titles) ==
    [i \in 1..Len(nodes) |->
        [nodes[i] EXCEPT
           !.name = IF nodes[i].ref \in DOMAIN titles THEN titles[nodes[i].ref] ELSE @,
           !.children = ResolveNames(@, titles)]]

\* the sections built so far with one more section
AppendSection(prev, section, r) ==
    [navbar |-> Append(prev.navbar,
                       [documentation |-> section, categories |-> r.nodes]),
     titles |-> r.ctx.titles,
     diags  |-> r.ctx.diags]

\* the navbar as written out: every name shows its title object
ResolvedNavbar(done) ==
    [navbar |-> [i \in 1..Len(done.navbar) |->
                    [done.navbar[i] EXCEPT
                       !.categories = ResolveNames(@, done.titles)]],
     diags |-> done.diags]

\* buildNavbar: the sections in the order of hierarchy.sections, each with
\* its own set of processed slugs
buildNavbar(sections, clm, showWarnings) ==
    ResolvedNavbar(
        FoldLeft(LAMBDA prev, sec :
                     AppendSection(prev, sec.section,
                                   buildCategoryNodes(
                                       sec.map, clm,
                                       [processed |-> {}, titles |-> prev.titles,
                                        diags |-> prev.diags],
                                       sec.section, showWarnings)),
                 [navbar |-> <<>>,
                  titles |-> [k \in DOMAIN clm |-> clm[k].title],
                  diags  |-> <<>>],
                 sections))

(***************************************************************************)
(* NavigationValidator                                                     *)
(***************************************************************************)
\* the categories and the documents among a list of nodes
CategoriesIn(nodes) == SelectSeq(nodes, LAMBDA n : n.type = "category")

RECURSIVE FlatMap(_, _)
\* concatenation of the sequences f[1], ..., f[n]
FlatMap(f, n) == IF n = 0 THEN <<>> ELSE FlatMap(f, n - 1) \o f[n]

\* navigation.schema.json: a category has at least one child, a document
\* has none
RECURSIVE SchemaErrors(_)
SchemaErrors(nodes) ==
    FlatMap([i \in 1..Len(nodes) |->
                (IF \/ (nodes[i].type = "category" /\ Len(nodes[i].children) < 1)
                    \/ (nodes[i].type = "markdown" /\ Len(nodes[i].children) > 0)
                 THEN <<[check |-> "schema", slug |-> nodes[i].slug.en]>>
                 ELSE <<>>)
                \o SchemaErrors(nodes[i].children)],
            Len(nodes))

\* validateAgainstSchema: the errors of the schema; when the schema file
\* cannot be read, the exception is caught and reported as one error
validateAgainstSchema(nav, schemaLoaded) ==
    IF schemaLoaded
    THEN FlatMap([i \in 1..Len(nav) |-> SchemaErrors(nav[i].categories)], Len(nav))
    ELSE <<[check |-> "schema", slug |-> <<>>]>>

\* customChecks: one error per English slug that more than one category
\* of a sibling list carries (an empty slug is not counted)
RECURSIVE checkCategoryUniq(_)
checkCategoryUniq(nodes) ==
    LET cats == SelectSeq(nodes, LAMBDA n : n.type = "category" /\ n.slug.en # <<>>)
        seen == KeysInOrder(cats, LAMBDA n : n.slug.en)
        count(k) == Cardinality({i \in 1..Len(cats) : cats[i].slug.en = k})
        dups == SelectSeq(seen, LAMBDA k : count(k) > 1)
        all  == CategoriesIn(nodes)
    IN  [i \in 1..Len(dups) |-> [check |-> "custom", slug |-> dups[i]]]
        \o FlatMap([i \in 1..Len(all) |-> checkCategoryUniq(all[i].children)],
                   Len(all))

customChecks(nav) ==
    FlatMap([i \in 1..Len(nav) |-> checkCategoryUniq(nav[i].categories)], Len(nav))

\* getSlugForLanguage
getSlugForLanguage(slugObj, language) ==
    IF slugObj[language] # <<>> THEN slugObj[language]
    ELSE IF slugObj.en # <<>> THEN slugObj.en
    ELSE IF slugObj.es # <<>> THEN slugObj.es
    ELSE slugObj.pt

\* collectSlugsFromCategories: the slugs of a language collected in a
\* section: those of the categories, at every depth, and those of the
\* children whose type is 'document'
RECURSIVE collectSlugsFromCategories(_, _)
collectSlugsFromCategories(categories, language) ==
    FlatMap([i \in 1..Len(categories) |->
                LET category == categories[i]
                    docs == SelectSeq(category.children,
                                      LAMBDA ch : ch.type = "document")
                    nested == CategoriesIn(category.children)
                IN  (IF getSlugForLanguage(category.slug, language) # <<>>
                     THEN <<getSlugForLanguage(category.slug, language)>>
                     ELSE <<>>)
                    \o FlatMap([j \in 1..Len(docs) |->
                                   IF getSlugForLanguage(docs[j].slug, language) # <<>>
                                   THEN <<getSlugForLanguage(docs[j].slug, language)>>
                                   ELSE <<>>],
                               Len(docs))
                    \o collectSlugsFromCategories(nested, language)],
            Len(categories))

findSlugDuplicatesInSection(section, language) ==
    LET slugs == collectSlugsFromCategories(section.categories, language)
        seen  == KeysInOrder(slugs, LAMBDA x : x)
        count(k) == Cardinality({i \in 1..Len(slugs) : slugs[i] = k})
    IN  SelectSeq(seen, LAMBDA k : count(k) > 1)

validateSectionSlugs(section) ==
    FlatMap([li \in 1..Len(Languages) |->
                LET dups == findSlugDuplicatesInSection(section, Languages[li])
                IN  [i \in 1..Len(dups) |->
                        [check |-> "content", slug |-> dups[i]]]],
            Len(Languages))

validateContent(nav) ==
    FlatMap([i \in 1..Len(nav) |-> validateSectionSlugs(nav[i])], Len(nav))

validateNavigation(nav, schemaLoaded) ==
    LET errors == validateAgainstSchema(nav, schemaLoaded)
                  \o customChecks(nav) \o validateContent(nav)
    IN  [done |-> TRUE, valid |-> (Len(errors) = 0), errors |-> errors]

\* a validator that removes from the data the categories it reports
NavigationAfterValidationPruned(nav) ==
    [i \in 1..Len(nav) |->
        [nav[i] EXCEPT !.categories =
            SelectSeq(@, LAMBDA n : \A e \in 1..Len(validateContent(nav)) :
                                       validateContent(nav)[e].slug # n.slug.en)]]

\* the navigation data as validateNavigation leaves it: the validator
\* reads the data and writes to none of it
NavigationAfterValidation(nav) == nav

\* cleanupNavigationData: a deep copy without the internal order fields
RECURSIVE RemoveOrder(_)
RemoveOrder(nodes) ==
    [i \in 1..Len(nodes) |->
        [nodes[i] EXCEPT !.order = <<>>, !.children = RemoveOrder(@)]]

cleanupNavigationData(nav) ==
    [i \in 1..Len(nav) |-> [nav[i] EXCEPT !.categories = RemoveOrder(@)]]


(***************************************************************************)
(* The content the generator runs on                                       *)
(***************************************************************************)
\* a content file as the scanner finds it on disk
ContentFile(language, section, dir, fileName, title, slugEN, legacySlug, order, status) ==
    [id |-> <<language, section, dir, fileName>>,
     language |-> language, section |-> section, dir |-> dir,
     fileName |-> fileName, title |-> title, slugEN |-> slugEN,
     legacySlug |-> legacySlug, order |-> order, status |-> status]

\* docs/en/tutorials/orders/orders.md
File1 ==
    ContentFile("en", "tutorials", <<<<"o","r","d","e","r","s">>>>,
                <<"o","r","d","e","r","s",".","m","d">>,
                <<"O","r","d","e","r","s">>, "k1", <<>>, <<>>, "PUBLISHED")

\* docs/es/tutorials/pedidos/lista.md
File2 ==
    ContentFile("es", "tutorials", <<<<"p","e","d","i","d","o","s">>>>,
                <<"l","i","s","t","a",".","m","d">>,
                <<"P","e","d","i","d","o","s">>, "k1", <<"l","i","s","t","a","-","v","i","e","j","a">>, <<>>, "PUBLISHED")

\* docs/pt/tutorials/pedidos/pedidos.md
File3 ==
    ContentFile("pt", "tutorials", <<<<"p","e","d","i","d","o","s">>>>,
                <<"p","e","d","i","d","o","s",".","m","d">>,
                <<"P","e","d","i","d","o","s">>, "k1", <<>>, <<>>, "")

\* docs/en/tutorials/orders/orders-v2.md
File4 ==
    ContentFile("en", "tutorials", <<<<"o","r","d","e","r","s">>>>,
                <<"o","r","d","e","r","s","-","v","2",".","m","d">>,
                <<"O","r","d","e","r","s"," ","v","2">>, "k1", <<>>, <<1>>, "PUBLISHED")

\* docs/en/tutorials/integrations/orders/api.md
File5 ==
    ContentFile("en", "tutorials", <<<<"i","n","t","e","g","r","a","t","i","o","n","s">>, <<"o","r","d","e","r","s">>>>,
                <<"a","p","i",".","m","d">>,
                <<"A","P","I">>, "k2", <<>>, <<>>, "PUBLISHED")

\* docs/en/tutorials/integrations/intro.md
File6 ==
    ContentFile("en", "tutorials", <<<<"i","n","t","e","g","r","a","t","i","o","n","s">>>>,
                <<"i","n","t","r","o",".","m","d">>,
                <<"I","n","t","r","o">>, "k3", <<>>, <<>>, "PUBLISHED")

\* docs/en/tutorials/home.md
File7 ==
    ContentFile("en", "tutorials", <<>>,
                <<"h","o","m","e",".","m","d">>,
                <<"H","o","m","e">>, "k4", <<>>, <<>>, "PUBLISHED")

\* docs/en/tracks/orders/orders.md
File8 ==
    ContentFile("en", "tracks", <<<<"o","r","d","e","r","s">>>>,
                <<"o","r","d","e","r","s",".","m","d">>,
                <<"O","r","d","e","r","s">>, "k1", <<>>, <<2>>, "PUBLISHED")

\* docs/en/tracks/orders/setup.md
File9 ==
    ContentFile("en", "tracks", <<<<"o","r","d","e","r","s">>>>,
                <<"s","e","t","u","p",".","m","d">>,
                <<"S","e","t","u","p">>, "k5", <<>>, <<1>>, "PUBLISHED")

\* docs/es/tutorials/tasas-y-promociones/tasas.md
File10 ==
    ContentFile("es", "tutorials", <<<<"t","a","s","a","s","-","y","-","p","r","o","m","o","c","i","o","n","e","s">>>>,
                <<"t","a","s","a","s",".","m","d">>,
                <<"T","a","s","a","s">>, "k6", <<>>, <<>>, "PUBLISHED")

\* docs/en/tutorials/promotions-&-taxes/taxes.md
File11 ==
    ContentFile("en", "tutorials", <<<<"p","r","o","m","o","t","i","o","n","s","-","&","-","t","a","x","e","s">>>>,
                <<"t","a","x","e","s",".","m","d">>,
                <<"T","a","x","e","s">>, "k7", <<>>, <<>>, "PUBLISHED")

\* docs/en/tutorials/payments/pay.md
File12 ==
    ContentFile("en", "tutorials", <<<<"p","a","y","m","e","n","t","s">>>>,
                <<"p","a","y",".","m","d">>,
                <<"P","a","y">>, "k1", <<>>, <<>>, "PUBLISHED")

\* docs/es/tutorials/pedidos/guia.md
File13 ==
    ContentFile("es", "tutorials", <<<<"p","e","d","i","d","o","s">>>>,
                <<"g","u","i","a",".","m","d">>,
                <<"G","u","í","a">>, "k8", <<>>, <<>>, "PUBLISHED")

\* docs/en/tutorials/orders/draft.md
File14 ==
    ContentFile("en", "tutorials", <<<<"o","r","d","e","r","s">>>>,
                <<"d","r","a","f","t",".","m","d">>,
                <<>>, "k9", <<>>, <<>>, "PUBLISHED")

\* docs/en/announcements/2024/01/2024-01-05-alpha.md
File15 ==
    ContentFile("en", "announcements", <<<<"2","0","2","4">>, <<"0","1">>>>,
                <<"2","0","2","4","-","0","1","-","0","5","-","a","l","p","h","a",".","m","d">>,
                <<"A","l","p","h","a">>, "k10", <<>>, <<>>, "PUBLISHED")

\* docs/en/announcements/2024/01/2024-01-20-beta.md
File16 ==
    ContentFile("en", "announcements", <<<<"2","0","2","4">>, <<"0","1">>>>,
                <<"2","0","2","4","-","0","1","-","2","0","-","b","e","t","a",".","m","d">>,
                <<"B","e","t","a">>, "k11", <<>>, <<>>, "PUBLISHED")

\* docs/en/tracks/orders/orders/start.md
File17 ==
    ContentFile("en", "tracks", <<<<"o","r","d","e","r","s">>, <<"o","r","d","e","r","s">>>>,
                <<"s","t","a","r","t",".","m","d">>,
                <<"S","t","a","r","t">>, "k12", <<>>, <<1>>, "PUBLISHED")

Universe ==
    {File1, File2, File3, File4, File5, File6, File7, File8, File9,
     File10, File11, File12, File13, File14, File15, File16, File17}


\* docs/en/tracks/orders/metadata.json
TrackMetadata ==
    [language |-> "en", section |-> "tracks", dir |-> <<<<"o","r","d","e","r","s">>>>,
     name |-> <<"O","r","d","e","r"," ","f","l","o","w">>, order |-> <<1>>, legacy |-> FALSE]

\* the sidecar files a repository can hold: none, or the metadata.json of a
\* folder of the repository
SidecarChoices(r) ==
    {S \in {{}, {TrackMetadata}} :
        \A m \in S : \E f \in r : /\ f.language = m.language
                                  /\ f.section = m.section
                                  /\ IsPrefix(m.dir, f.dir)}

\* the options of a run: the defaults, --show-warnings, --strict
OptionChoices ==
    {[showWarnings |-> FALSE, validate |-> TRUE, strict |-> FALSE],
     [showWarnings |-> TRUE,  validate |-> TRUE, strict |-> FALSE],
     [showWarnings |-> FALSE, validate |-> TRUE, strict |-> TRUE]}

\* the largest number of content files in a repository
MaxFiles == 3

Repositories == {S \in SUBSET Universe : Cardinality(S) \in 1..MaxFiles}

NoValidation == [done |-> FALSE, valid |-> FALSE, errors |-> <<>>]

\* the validate command has not run
NotValidated ==
    [ran |-> FALSE, strict |-> FALSE, loaded |-> FALSE, errors |-> <<>>,
     exitCode |-> 0]

\* an order of the phases in which the scan leads straight to linking
PhaseAfterSkippingCategories(phase) ==
    CASE phase = "init"        -> "ready"
      [] phase = "ready"       -> "categorized"
      [] phase = "scanned"     -> "categorized"
      [] phase = "categorized" -> "linked"
      [] phase = "linked"      -> "transformed"
      [] phase = "transformed" -> "validated"
      [] phase = "validated"   -> "done"

\* generate runs its phases in this order; the value of pc after a phase
PhaseAfter(phase) ==
    CASE phase = "init"        -> "ready"
      [] phase = "ready"       -> "scanned"
      [] phase = "scanned"     -> "categorized"
      [] phase = "categorized" -> "linked"
      [] phase = "linked"      -> "transformed"
      [] phase = "transformed" -> "validated"
      [] phase = "validated"   -> "done"

(***************************************************************************)
(* SimpleNavigationGenerator.generate                                      *)
(***************************************************************************)
Init ==
    /\ repo \in Repositories
    /\ sidecars \in SidecarChoices(repo)
    /\ options \in OptionChoices
    /\ pc = "init"
    /\ files = <<>>
    /\ hierarchy = <<>>
    /\ crossLanguageMap = <<>>
    /\ navbar = <<>>
    /\ diagnostics = <<>>
    /\ validation = NoValidation
    /\ written = FALSE
    /\ cachedConfig = <<>>
    /\ run = 1
    /\ validateRun = NotValidated

\* Phase 0: the content repository is cloned or updated; git may fail
EnsureContentRepository ==
    /\ pc = "init"
    /\ pc' \in {PhaseAfter(pc), "failed"}
    /\ UNCHANGED <<repo, sidecars, options, files, hierarchy, crossLanguageMap,
                   navbar, diagnostics, validation, written>>
    /\ UNCHANGED <<cachedConfig, run, validateRun>>

\* Phase 1: ContentScanner.scan walks the tree, parses every file and keeps
\* the accepted ones; a file without title or slugEN is reported. A scan
\* that ends with errors (the tree cannot be read) fails the run
ScanContent ==
    /\ pc = "ready"
    /\ \/ \E walk \in WalkOrders(repo) :
             LET dropped == SelectSeq(walk, MissingRequired)
             IN  /\ files' = SelectSeq(walk, Accepted)
                 /\ diagnostics' = diagnostics \o
                        [i \in 1..Len(dropped) |->
                            Diag("MISSING_FIELDS", dropped[i].section,
                                 dropped[i].language, dropped[i].slugEN,
                                 <<dropped[i].id>>)]
                 /\ pc' = PhaseAfter(pc)
       \/ /\ pc' = "failed"
          /\ UNCHANGED <<files, diagnostics>>
    /\ UNCHANGED <<repo, sidecars, options, hierarchy, crossLanguageMap,
                   navbar, validation, written>>
    /\ UNCHANGED <<cachedConfig, run, validateRun>>

\* Phase 2: CategoryBuilder.buildHierarchy
BuildCategoryHierarchy ==
    /\ pc = "scanned"
    /\ hierarchy' = buildHierarchy(files)
    /\ pc' = PhaseAfter(pc)
    /\ UNCHANGED <<repo, sidecars, options, files, crossLanguageMap, navbar,
                   diagnostics, validation, written>>
    /\ UNCHANGED <<cachedConfig, run, validateRun>>

\* Phase 3: CrossLanguageLinker.linkDocuments
LinkCrossLanguageDocuments ==
    /\ pc = "categorized"
    /\ crossLanguageMap' = buildCrossLanguageMap(files)
    /\ pc' = PhaseAfter(pc)
    /\ UNCHANGED <<repo, sidecars, options, files, hierarchy, navbar,
                   diagnostics, validation, written>>
    /\ UNCHANGED <<cachedConfig, run, validateRun>>

\* loadSectionsConfig: the cached configuration when there is one; else
\* the configuration is built (from sections.config.json, or the built-in
\* table when the file cannot be read) and kept in the module-level cache.
\* A configuration object is identified by the run that built it.
loadSectionsConfig(cached, thisRun) ==
    IF cached # <<>> THEN cached ELSE <<thisRun>>

\* the navigation data and the warnings of the transformation are kept
NavigationBuilt(built) ==
    /\ navbar' = built.navbar
    /\ diagnostics' = diagnostics \o built.diags

\* Phase 4: NavigationTransformer.transformToNavigation
TransformToNavigation ==
    /\ pc = "linked"
    /\ NavigationBuilt(buildNavbar(hierarchy, crossLanguageMap, options.showWarnings))
    /\ cachedConfig' = IF Len(hierarchy) > 0
                       THEN loadSectionsConfig(cachedConfig, run)
                       ELSE cachedConfig
    /\ pc' = PhaseAfter(pc)
    /\ UNCHANGED <<repo, sidecars, options, files, hierarchy, crossLanguageMap,
                   validation, written>>
    /\ UNCHANGED <<run, validateRun>>

\* Phase 5: validateAndOutput cleans the data, validates it and writes
\* the output file; the schema file may be unreadable
ValidateAndOutput ==
    /\ pc = "transformed"
    /\ navbar' = NavigationAfterValidation(cleanupNavigationData(navbar))
    /\ \E schemaLoaded \in BOOLEAN :
          validation' = validateNavigation(cleanupNavigationData(navbar), schemaLoaded)
    /\ written' = TRUE
    /\ pc' = PhaseAfter(pc)
    /\ UNCHANGED <<repo, sidecars, options, files, hierarchy, crossLanguageMap,
                   diagnostics>>
    /\ UNCHANGED <<cachedConfig, run, validateRun>>

\* the end of generate: in strict mode an invalid result fails the run
Finish ==
    /\ pc = "validated"
    /\ pc' = IF options.validate /\ options.strict /\ ~validation.valid
             THEN "failed" ELSE PhaseAfter(pc)
    /\ UNCHANGED <<repo, sidecars, options, files, hierarchy, crossLanguageMap,
                   navbar, diagnostics, validation, written>>
    /\ UNCHANGED <<cachedConfig, run, validateRun>>

Next ==
    \/ EnsureContentRepository
    \/ ScanContent
    \/ BuildCategoryHierarchy
    \/ LinkCrossLanguageDocuments
    \/ TransformToNavigation
    \/ ValidateAndOutput
    \/ Finish

Spec == Init /\ [][Next]_vars

(***************************************************************************)
(* A session of the command line: generate can run again in the same       *)
(* process, and the validate command can be given the output file          *)
(***************************************************************************)
\* the largest number of generate runs in one process
MaxRuns == 2

\* the largest number of content files of a repository in a session
MaxSessionFiles == 2

\* a further run in the same process on the same inputs: a new
\* SimpleNavigationGenerator starts with fresh fields; the module-level
\* cache of the sections configuration is not touched
GenerateAgain ==
    /\ pc \in {"done", "failed"}
    /\ run < MaxRuns
    /\ run' = run + 1
    /\ pc' = "init"
    /\ files' = <<>>
    /\ hierarchy' = <<>>
    /\ crossLanguageMap' = <<>>
    /\ navbar' = <<>>
    /\ diagnostics' = <<>>
    /\ validation' = NoValidation
    /\ written' = FALSE
    /\ UNCHANGED <<repo, sidecars, options, cachedConfig, validateRun>>

\* a navigation file edited by hand: every category listed twice
DuplicatedCategories(nav) ==
    [i \in 1..Len(nav) |-> [nav[i] EXCEPT !.categories = @ \o @]]

\* a navigation file edited by hand: the top categories without children
EmptiedCategories(nav) ==
    [i \in 1..Len(nav) |->
        [nav[i] EXCEPT !.categories =
            [k \in 1..Len(@) |-> [@[k] EXCEPT !.children = <<>>]]]]

\* the files the validate command is given: the output of generate, as
\* written or edited
NavigationFiles(nav) ==
    {nav, DuplicatedCategories(nav), EmptiedCategories(nav)}

\* the errors the command collects: those of the schema, then those of
\* the sibling-category check
CommandErrors(data) == validateAgainstSchema(data, TRUE) \o customChecks(data)

\* an exit status that fails on any error, with or without --strict
ExitStatusFailingAlways(strict, allErrors) ==
    IF Len(allErrors) > 0 THEN 1 ELSE 0

\* process.exit(1) when --strict is given and there are errors; else the
\* action returns and the process exits with status 0
ExitStatus(strict, allErrors) ==
    IF strict /\ Len(allErrors) > 0 THEN 1 ELSE 0

\* the action of the validate command; loaded is FALSE when the schema or
\* the file cannot be read or parsed: the exception is caught and the
\* process exits with status 1
validateCommand(data, strict, loaded) ==
    IF loaded
    THEN [ran |-> TRUE, strict |-> strict, loaded |-> TRUE,
          errors |-> CommandErrors(data),
          exitCode |-> ExitStatus(strict, CommandErrors(data))]
    ELSE [ran |-> TRUE, strict |-> strict, loaded |-> FALSE,
          errors |-> <<>>, exitCode |-> 1]

\* vtex-nav validate <file> [--strict] on the output file of the run
ValidateCommand ==
    /\ pc \in {"done", "failed"}
    /\ written
    /\ ~validateRun.ran
    /\ \E data \in NavigationFiles(navbar) : \E strict, loaded \in BOOLEAN :
          validateRun' = validateCommand(data, strict, loaded)
    /\ UNCHANGED <<repo, sidecars, options, pc, files, hierarchy,
                   crossLanguageMap, navbar, diagnostics, validation, written,
                   cachedConfig, run>>

InitSession == Init /\ Cardinality(repo) <= MaxSessionFiles

NextSession ==
    \/ Next
    \/ GenerateAgain
    \/ ValidateCommand

SpecSession == InitSession /\ [][NextSession]_vars


(***************************************************************************)
(* Reading the final tree                                                  *)
(***************************************************************************)
\* the navigation tree exists: transformToNavigation has returned
TreeBuilt == pc \in {"transformed", "validated", "done"} \/ (pc = "failed" /\ written)

\* every node of a forest, parents before children, as a sequence
RECURSIVE Flatten(_)
Flatten(nodes) ==
    FlatMap([i \in 1..Len(nodes) |-> <<nodes[i]>> \o Flatten(nodes[i].children)],
            Len(nodes))

\* the top-level categories of a section of the tree (none when the tree
\* has no such section)
SectionTree(section) ==
    IF \E i \in 1..Len(navbar) : navbar[i].documentation = section
    THEN navbar[CHOOSE i \in 1..Len(navbar) : navbar[i].documentation = section].categories
    ELSE <<>>

AllNodes == FlatMap([i \in 1..Len(navbar) |-> Flatten(navbar[i].categories)], Len(navbar))

DocNodesIn(section) ==
    SelectSeq(Flatten(SectionTree(section)), LAMBDA n : n.type = "markdown")

\* the lists of sibling categories of the tree: the top level of every
\* section and the categories among the children of every category
CategoryLists ==
    {navbar[i].categories : i \in 1..Len(navbar)}
    \cup {CategoriesIn(AllNodes[i].children) :
             i \in {j \in 1..Len(AllNodes) : AllNodes[j].type = "category"}}

\* a slot shows a title: the title itself, or the title behind the ordinal
\* prefix of a track article ("1. Title")
ShowsTitle(slot, title) ==
    \/ slot = title
    \/ \E k \in 3..Len(slot) :
          /\ slot[k] = " " /\ slot[k-1] = "."
          /\ \A j \in 1..(k-2) : slot[j] \in Digits
          /\ SubSeq(slot, k + 1, Len(slot)) = title

\* the accepted records of a section, language and slugEN, in input order
RecordsOf(section, language, slugEN) ==
    SelectSeq(files, LAMBDA f : /\ f.section = section /\ f.language = language
                                /\ f.slugEN = slugEN)

\* the document nodes of a section built for a slugEN
NodesFor(section, slugEN) ==
    SelectSeq(DocNodesIn(section), LAMBDA n : n.ref = slugEN)

(***************************************************************************)
(* C1  Canonicalization convergence                                        *)
(***************************************************************************)
\* the synonym table declares two folder names synonyms: one is mapped to
\* the other, or both are mapped to the same identifier
DeclaredSynonyms(a, b) ==
    \/ a \in DOMAIN MappingOf /\ MappingOf[a] = b
    \/ b \in DOMAIN MappingOf /\ MappingOf[b] = a
    \/ /\ a # b /\ a \in DOMAIN MappingOf /\ b \in DOMAIN MappingOf
       /\ MappingOf[a] = MappingOf[b]

\* two folder paths of the same depth that differ only by declared synonyms
SynonymFolders(d, e) ==
    /\ Len(d) = Len(e)
    /\ \A i \in 1..Len(d) : d[i] = e[i] \/ DeclaredSynonyms(d[i], e[i])
    /\ \E i \in 1..Len(d) : DeclaredSynonyms(d[i], e[i])

\* what the resolver returns for a record of the scan
CanonicalPathOf(f) ==
    extractUnifiedCanonicalPath(f, groupFilesBySection(files, f.section))

\* the record whose folders the resolver reads for a record of the scan
ReferenceOf(f) == ReferenceFile(f, groupFilesBySection(files, f.section))

\* C1 as stated: any two records in different languages whose own folders
\* are declared synonyms get identical canonical paths.
C1_OwnFoldersConverge ==
    pc = "categorized" =>
        \A i, j \in 1..Len(files) :
            (/\ files[i].language # files[j].language
             /\ SynonymFolders(files[i].dir, files[j].dir))
            => CanonicalPathOf(files[i]) = CanonicalPathOf(files[j])

\* C1 amended: the resolver reads the folders of a record's reference
\* record (its English variant, else Spanish, else Portuguese, else
\* itself); any two records in different languages whose reference folders
\* are declared synonyms get identical canonical paths.
C1_ReferenceFoldersConverge ==
    pc = "categorized" =>
        \A i, j \in 1..Len(files) :
            (/\ files[i].language # files[j].language
             /\ SynonymFolders(ReferenceOf(files[i]).dir, ReferenceOf(files[j]).dir))
            => CanonicalPathOf(files[i]) = CanonicalPathOf(files[j])

\* two records in different languages, in folders that are declared
\* synonyms, have been grouped into one category of the hierarchy
C1_Witness ==
    /\ pc = "categorized"
    /\ \E i, j \in 1..Len(files) :
          /\ files[i].language # files[j].language
          /\ SynonymFolders(ReferenceOf(files[i]).dir, ReferenceOf(files[j]).dir)
          /\ \E s \in 1..Len(hierarchy) : \E c \in 1..Len(hierarchy[s].map) :
                {files[i], files[j]} \subseteq Range(hierarchy[s].map[c].files)


(***************************************************************************)
(* C2  Merge idempotence                                                   *)
(***************************************************************************)
\* the slugENs of the files of a category of the hierarchy
KeysOfEntry(entry) == {entry.files[i].slugEN : i \in 1..Len(entry.files)}

\* a top-level category of section s of the tree holds documents of two
\* different categories of the hierarchy: the merge engine has merged them
MergeActed(s) ==
    \E c \in 1..Len(navbar[s].categories) :
        \E e1, e2 \in 1..Len(hierarchy[s].map) :
            LET node == navbar[s].categories[c]
                a == hierarchy[s].map[e1]
                b == hierarchy[s].map[e2]
                refs == {node.children[d].ref : d \in 1..Len(node.children)}
            IN  /\ e1 # e2 /\ a.kind = "files" /\ b.kind = "files"
                /\ refs \cap (KeysOfEntry(a) \ KeysOfEntry(b)) # {}
                /\ refs \cap (KeysOfEntry(b) \ KeysOfEntry(a)) # {}

\* C2: merging a list of sibling categories that is already the output of
\* a merge gives the same list: same nodes, names, children and order.
C2_MergeIdempotent ==
    TreeBuilt => \A L \in CategoryLists : mergeCategoryNodeLists(L) = L

\* the tree holds a category that the merge engine made of two
C2_Witness ==
    /\ pc = "transformed"
    /\ \E s \in 1..Len(navbar) : MergeActed(s)

(***************************************************************************)
(* C3  No orphan categories                                                *)
(***************************************************************************)
\* C3: every category node of the final tree, at every depth, has at
\* least one child.
C3_NoOrphanCategories ==
    TreeBuilt =>
        \A i \in 1..Len(AllNodes) :
            AllNodes[i].type = "category" => Len(AllNodes[i].children) >= 1

\* a category of the hierarchy that has files is absent from the tree (it
\* was pruned), and the tree still has categories
C3_Witness ==
    /\ pc = "transformed"
    /\ \E s \in 1..Len(navbar) :
          /\ Len(navbar[s].categories) >= 1
          /\ \E e \in 1..Len(hierarchy[s].map) :
                LET entry == hierarchy[s].map[e]
                IN  /\ entry.kind = "files" /\ Len(entry.files) >= 1
                    /\ \A c \in 1..Len(navbar[s].categories) :
                          navbar[s].categories[c].slug.en #
                              generateLocalizedCategorySlugs(entry.name, TRUE,
                                                             entry.files).en

(***************************************************************************)
(* C4  Locale slug uniqueness among siblings                               *)
(***************************************************************************)
\* C4: in the final tree, no two sibling categories have the same slug in
\* any of the locales en, es and pt.
C4_LocaleSlugsUnique ==
    TreeBuilt =>
        \A L \in CategoryLists : \A l \in LangSet : \A i, j \in 1..Len(L) :
            i < j => L[i].slug[l] # L[j].slug[l]

(***************************************************************************)
(* C5  English slug uniqueness among siblings                              *)
(***************************************************************************)
\* C5: sibling categories have pairwise distinct English slugs at every
\* level of the tree, and the validator's sibling check reports no error.
C5_EnglishSlugsUnique ==
    /\ TreeBuilt =>
           \A L \in CategoryLists : \A i, j \in 1..Len(L) :
               i < j => L[i].slug.en # L[j].slug.en
    /\ validation.done =>
           \A e \in 1..Len(validation.errors) : validation.errors[e].check # "custom"

\* the validator has checked a tree in which the merge engine has merged
\* two categories
C5_Witness ==
    /\ pc = "validated"
    /\ validation.done
    /\ \E s \in 1..Len(navbar) : MergeActed(s)


(***************************************************************************)
(* C6  Cross-language fold completeness                                    *)
(***************************************************************************)
\* the accepted records with a slugEN, in every section and language
RecordsWithKey(slugEN) == SelectSeq(files, LAMBDA f : f.slugEN = slugEN)

\* the slugs a record can show: its legacySlug, its file-name slug
SlugsOfRecord(f) ==
    {f.legacySlug, generateSlugFromFilename(f.fileName)} \ {<<>>}

\* the records of a slugEN are translations of one document: they lie in
\* one section and no two are in the same language
TranslationGroup(slugEN) ==
    LET G == RecordsWithKey(slugEN)
    IN  /\ Len(G) >= 1
        /\ \A i, j \in 1..Len(G) :
               i # j => /\ G[i].language # G[j].language
                        /\ G[i].section = G[j].section

\* C6: the records that share one slugEN across up to three languages are
\* folded into exactly one document node of the final tree, and for every
\* language that has a record, that record's title and slug are in the
\* node's slot for the language.
C6_FoldComplete ==
    TreeBuilt =>
        \A k \in {files[i].slugEN : i \in 1..Len(files)} :
            TranslationGroup(k) =>
                LET G == RecordsWithKey(k)
                    nodes == SelectSeq(AllNodes, LAMBDA n : n.type = "markdown" /\ n.ref = k)
                IN  /\ Len(nodes) = 1
                    /\ \A i \in 1..Len(G) :
                          /\ ShowsTitle(nodes[1].name[G[i].language], G[i].title)
                          /\ nodes[1].slug[G[i].language] \in SlugsOfRecord(G[i])

(***************************************************************************)
(* C7  Missing language slots                                              *)
(***************************************************************************)
\* C7: when a document has no record in a language, the slot of that
\* language in the node's title and slug is the empty string.
C7_MissingSlotsEmpty ==
    TreeBuilt =>
        \A i \in 1..Len(AllNodes) : \A l \in LangSet :
            (/\ AllNodes[i].type = "markdown"
             /\ \A j \in 1..Len(files) :
                    ~(files[j].slugEN = AllNodes[i].ref /\ files[j].language = l))
            => /\ AllNodes[i].name[l] = <<>>
               /\ AllNodes[i].slug[l] = <<>>

(***************************************************************************)
(* C8  True-duplicate pruning keeps the first                              *)
(***************************************************************************)
\* C8: of the records of one section and language with the same slugEN,
\* exactly one survives in the tree, and the title and slug of the
\* language's slot are those of the first record in input order.
C8_FirstDuplicateSurvives ==
    TreeBuilt =>
        \A i \in 1..Len(files) :
            LET f == files[i]
                G == RecordsOf(f.section, f.language, f.slugEN)
                nodes == NodesFor(f.section, f.slugEN)
            IN  Len(G) > 1 =>
                    /\ Len(nodes) = 1
                    /\ ShowsTitle(nodes[1].name[f.language], G[1].title)
                    /\ nodes[1].slug[f.language] \in SlugsOfRecord(G[1])

(***************************************************************************)
(* C9  One diagnostic per dropped duplicate                                *)
(***************************************************************************)
\* the diagnostics that report a record as a duplicate of another
DuplicateReports(dropped, survivor) ==
    {d \in 1..Len(diagnostics) :
        /\ diagnostics[d].kind = "TRUE_DUPLICATE"
        /\ dropped.id \in Range(diagnostics[d].paths)
        /\ survivor.id \in Range(diagnostics[d].paths)}

\* C9: for every record dropped as a true duplicate (every record of a
\* section, language and slugEN but the first), exactly one diagnostic
\* names the surviving record's path and the dropped record's path,
\* whatever the options of the run.
C9_OneDiagnosticPerDrop ==
    TreeBuilt =>
        \A i \in 1..Len(files) :
            LET f == files[i]
                G == RecordsOf(f.section, f.language, f.slugEN)
            IN  (Len(G) > 1 /\ f # G[1]) =>
                    Cardinality(DuplicateReports(f, G[1])) = 1

(***************************************************************************)
(* C10  No silent loss                                                     *)
(***************************************************************************)
\* the document nodes of a record's section that show the record's title
\* and slug in the slot of its language
NodesShowing(f) ==
    SelectSeq(DocNodesIn(f.section),
              LAMBDA n : /\ ShowsTitle(n.name[f.language], f.title)
                         /\ n.slug[f.language] \in SlugsOfRecord(f))

NamedInDiagnostic(f) ==
    \E d \in 1..Len(diagnostics) : f.id \in Range(diagnostics[d].paths)

\* C10: every record the scanner accepted is represented in the final
\* tree or named in a diagnostic, and none is represented by more than
\* one document node of its section.
C10_NoSilentLoss ==
    TreeBuilt =>
        \A i \in 1..Len(files) :
            /\ Len(NodesShowing(files[i])) >= 1 \/ NamedInDiagnostic(files[i])
            /\ Len(NodesShowing(files[i])) <= 1

(***************************************************************************)
(* C11  No accidental merge                                                *)
(***************************************************************************)
\* the records of a slugEN in a section all have the canonical path p
OnlyUnder(section, slugEN, p) ==
    \A i \in 1..Len(files) :
        (files[i].section = section /\ files[i].slugEN = slugEN)
        => CanonicalPathOf(files[i]) = p

\* a category node has the documents of both slugENs among its children
SharedParent(k1, k2) ==
    \E n \in 1..Len(AllNodes) :
        /\ AllNodes[n].type = "category"
        /\ \E a, b \in 1..Len(AllNodes[n].children) :
              /\ AllNodes[n].children[a].ref = k1
              /\ AllNodes[n].children[b].ref = k2

\* C11: two categories with the same leaf name and different canonical
\* paths are never merged into one node: the documents of the one and the
\* documents of the other never share a parent in the final tree.
C11_NoAccidentalMerge ==
    TreeBuilt =>
        \A i, j \in 1..Len(files) :
            LET f == files[i]
                g == files[j]
                p == CanonicalPathOf(f)
                q == CanonicalPathOf(g)
            IN  (/\ f.section = g.section /\ f.slugEN # g.slugEN
                 /\ p # <<>> /\ q # <<>> /\ p # q
                 /\ p[Len(p)] = q[Len(q)]
                 /\ OnlyUnder(f.section, f.slugEN, p)
                 /\ OnlyUnder(g.section, g.slugEN, q))
                => ~SharedParent(f.slugEN, g.slugEN)

(***************************************************************************)
(* C12  Category slugs against the slugs of their documents                *)
(***************************************************************************)
\* C12: for every category whose children are documents and for every
\* locale, the category's slug in the locale differs from the slug each of
\* its document children carries in that locale in the final tree.
C12_CategorySlugCollisionFree ==
    TreeBuilt =>
        \A n \in 1..Len(AllNodes) : \A l \in LangSet :
            AllNodes[n].type = "category" =>
                \A d \in 1..Len(AllNodes[n].children) :
                    AllNodes[n].children[d].type = "markdown"
                    => AllNodes[n].slug[l] # AllNodes[n].children[d].slug[l]

(***************************************************************************)
(* C13  legacySlug against the file-name slug                              *)
(***************************************************************************)
\* the diagnostics that record the slug mismatch of a record
MismatchReports(f) ==
    {d \in 1..Len(diagnostics) :
        /\ diagnostics[d].kind = "SLUG_MISMATCH"
        /\ f.id \in Range(diagnostics[d].paths)}

\* C13: when a record's legacySlug differs from the slug derived from its
\* file name (and the record is the only one of its language and slugEN),
\* the slot of its language in the document node holds the file-name slug,
\* and a diagnostic records the mismatch.
C13_FilenameSlugWins ==
    TreeBuilt =>
        \A i \in 1..Len(files) :
            LET f == files[i]
                nodes == NodesFor(f.section, f.slugEN)
            IN  (/\ SlugMismatch(f)
                 /\ \A j \in 1..Len(files) :
                        (files[j].slugEN = f.slugEN /\ files[j].language = f.language)
                        => j = i
                 /\ Len(nodes) >= 1)
                => /\ \A n \in 1..Len(nodes) :
                          nodes[n].slug[f.language] = generateSlugFromFilename(f.fileName)
                   /\ MismatchReports(f) # {}

(***************************************************************************)
(* C14  Default ordering                                                   *)
(***************************************************************************)
\* the sibling lists of a section of the tree: its top level and the
\* children of each of its categories
SiblingLists(section) ==
    {SectionTree(section)}
    \cup {Flatten(SectionTree(section))[i].children :
             i \in {j \in 1..Len(Flatten(SectionTree(section))) :
                       Flatten(SectionTree(section))[j].type = "category"}}

\* a list is in case-insensitive order of English display name
SortedByEnglishName(L) ==
    \A i, j \in 1..Len(L) :
        i < j => localeCompare(EnglishTitle(L[i]), EnglishTitle(L[j])) <= 0

\* the sections without a sort policy of their own
DefaultSections ==
    {navbar[i].documentation : i \in 1..Len(navbar)} \ {"tracks", "announcements"}

\* C14: in a section with no special policy, every sibling list of the
\* final tree, the children of a merged category included, is sorted
\* case-insensitively by English display name.
C14_DefaultOrdering ==
    TreeBuilt =>
        \A section \in DefaultSections : \A L \in SiblingLists(section) :
            SortedByEnglishName(L)

(***************************************************************************)
(* C15  Ordering by the numeric order                                      *)
(***************************************************************************)
\* a list is sorted by order: the items with an order first, ascending,
\* then the items without one, by title
SortedByOrder(L) ==
    \A i, j \in 1..Len(L) :
        i < j => OrderThenTitle(L[i].order, L[j].order,
                                EnglishTitle(L[i]), EnglishTitle(L[j])) <= 0

\* C15: in every section, a sibling list with an item that carries a
\* numeric order is sorted ascending by order, the items without an order
\* after the others and by title among themselves.  (Read where the nodes
\* still carry their order: before the clean-up of the output.)
C15_OrderedSections ==
    pc = "transformed" =>
        \A s \in 1..Len(navbar) : \A L \in SiblingLists(navbar[s].documentation) :
            (\E i \in 1..Len(L) : L[i].order # <<>>) => SortedByOrder(L)

(***************************************************************************)
(* C16  Chronological sections                                             *)
(***************************************************************************)
\* the YYYY-MM-DD prefix of a file name, <<>> when it has none
DatePrefix(fileName) ==
    IF /\ Len(fileName) >= 10
       /\ \A i \in {1,2,3,4,6,7,9,10} : fileName[i] \in Digits
       /\ fileName[5] = "-" /\ fileName[8] = "-"
    THEN SubSeq(fileName, 1, 10)
    ELSE <<>>

\* the date of a document node of the announcements: that of the file of
\* its slugEN
DateOfNode(n) ==
    LET fs == SelectSeq(files, LAMBDA f : f.section = "announcements" /\ f.slugEN = n.ref)
    IN  IF fs = <<>> THEN <<>> ELSE DatePrefix(fs[1].fileName)

\* C16: in the announcements, the documents of a month bucket are sorted
\* descending by the date prefix of their file name (newest first), and
\* the month and year buckets are sorted descending by name.
C16_NewestFirst ==
    TreeBuilt =>
        \A L \in SiblingLists("announcements") : \A i, j \in 1..Len(L) :
            i < j =>
                /\ (L[i].type = "markdown" /\ L[j].type = "markdown")
                   => CompareBy(DateOfNode(L[i]), DateOfNode(L[j]), PrimaryWeight) >= 0
                /\ (L[i].type = "category" /\ L[j].type = "category")
                   => CompareBy(L[i].name.en, L[j].name.en, PrimaryWeight) >= 0

(***************************************************************************)
(* C17  Positional prefix of the track articles                            *)
(***************************************************************************)
\* the position of the i-th node of a list among the documents of the list
LeafPosition(L, i) ==
    Cardinality({j \in 1..i : L[j].type = "markdown"})

\* C17: in the tracks section, every non-empty title of every document
\* begins with "{n}. ", n being the document's position among the
\* documents of its sibling list in the final tree.
C17_PositionalPrefix ==
    TreeBuilt =>
        \A L \in SiblingLists("tracks") : \A i \in 1..Len(L) : \A l \in LangSet :
            (L[i].type = "markdown" /\ TrimSet(L[i].name[l], {" "}) # <<>>)
            => IsPrefix(NumText(LeafPosition(L, i)) \o <<".", " ">>, L[i].name[l])

(***************************************************************************)
(* C18  Idempotence of the prefixing pass                                  *)
(***************************************************************************)
\* C18: a title that carries a numeric prefix is not prefixed again:
\* running the prefixing pass over a sibling list of the tracks section of
\* the final tree leaves every title unchanged.
C18_PrefixIdempotent ==
    TreeBuilt =>
        \A L \in SiblingLists("tracks") :
            \A i \in 1..Len(L) :
                addOrderNumbersToArticleNames(L)[i].name = L[i].name

\* the tracks section of the tree has an article whose titles carry the
\* prefix of the pass
C18_Witness ==
    /\ pc = "transformed"
    /\ \E L \in SiblingLists("tracks") : \E i \in 1..Len(L) :
          /\ L[i].type = "markdown"
          /\ HasNumericPrefix(L[i].name.en)
          /\ ~HasNumericPrefix(RecordsOf("tracks", "en", L[i].ref)[1].title)

(***************************************************************************)
(* C19  The validation result                                              *)
(***************************************************************************)
\* the validator has reported no error of a check
CheckPassed(check) ==
    \A e \in 1..Len(validation.errors) : validation.errors[e].check # check

\* sibling categories have pairwise distinct English slugs
SiblingSlugsDistinct ==
    \A L \in CategoryLists : \A i, j \in 1..Len(L) :
        i < j => L[i].slug.en # L[j].slug.en

\* C19: the validation result is valid exactly when the schema check
\* passes and the English slugs of sibling categories are pairwise
\* distinct.
C19_ValidIffBothChecks ==
    validation.done =>
        (validation.valid <=> (CheckPassed("schema") /\ SiblingSlugsDistinct))

C21_StrictHaltsWriting ==
    (options.validate /\ options.strict /\ validation.done /\ ~validation.valid)
        => ~written

\* the tree a run builds from the files a walk of the content tree returns
TreeOfWalk(walk) ==
    buildNavbar(buildHierarchy(SelectSeq(walk, Accepted)),
                buildCrossLanguageMap(SelectSeq(walk, Accepted)),
                options.showWarnings).navbar

\* the records of the repository that lack a required frontmatter field
Defective == {f \in repo : MissingRequired(f)}

\* the warning that reports a defective record
ReportedMissing(f) ==
    \E i \in 1..Len(diagnostics) :
        /\ diagnostics[i].kind = "MISSING_FIELDS"
        /\ diagnostics[i].paths = <<f.id>>

(***************************************************************************)
(* C22: a record without title or slugEN is dropped with a warning and is  *)
(* never fatal: the run goes on, the record is reported, and the tree is   *)
(* one the run builds from the repository without the defective records.   *)
(***************************************************************************)
C22_DefectiveRecordDropped ==
    (pc = "transformed" /\ Defective # {}) =>
        /\ \A f \in Defective : ReportedMissing(f)
        /\ \A i \in 1..Len(files) : files[i] \notin Defective
        /\ \E w \in WalkOrders(repo \ Defective) :
              /\ files = SelectSeq(w, Accepted)
              /\ navbar = TreeOfWalk(w)

C22_Witness ==
    /\ pc = "transformed"
    /\ Defective # {}
    /\ navbar # <<>>
    /\ \E f \in Defective : \E i \in 1..Len(files) : files[i].dir = f.dir

(***************************************************************************)
(* C23: the generated tree does not depend on the order of the input: any  *)
(* order in which the scan can return the records of the repository gives  *)
(* the tree of this run.                                                   *)
(***************************************************************************)
C23_OrderIndependent ==
    pc = "transformed" => \A w \in WalkOrders(repo) : TreeOfWalk(w) = navbar

(***************************************************************************)
(* C24: no shared mutable state survives across runs: every structure a    *)
(* run reads was built by that run; the sections configuration a run has   *)
(* used for its sections is the one that run built.                        *)
(***************************************************************************)
C24_NothingSurvivesRuns ==
    (TreeBuilt /\ Len(hierarchy) > 0) => cachedConfig = <<run>>

\* the numbers of category ancestors of the document nodes of a slugEN
RECURSIVE DepthsOf(_, _, _)
DepthsOf(nodes, slugEN, depth) ==
    UNION {(IF nodes[i].type = "markdown" /\ nodes[i].ref = slugEN
            THEN {depth} ELSE {})
           \cup DepthsOf(nodes[i].children, slugEN, depth + 1) :
           i \in 1..Len(nodes)}

(***************************************************************************)
(* C25: the category tree respects the folder hierarchy: the document node *)
(* of a record lies below one category per segment of the record's         *)
(* canonical path, a record two folders deep two categories deep.          *)
(***************************************************************************)
C25_FolderHierarchyRespected ==
    TreeBuilt =>
        \A i \in 1..Len(files) :
            LET f == files[i]
                p == CanonicalPathOf(f)
            IN  (p # <<>> /\ OnlyUnder(f.section, f.slugEN, p))
                => DepthsOf(SectionTree(f.section), f.slugEN, 0) \subseteq {Len(p)}

SectionsOfTree == {navbar[i].documentation : i \in 1..Len(navbar)}

(***************************************************************************)
(* C27: track title prefixing changes no title of a document outside the   *)
(* learning-tracks section: every title a document node of another section *)
(* shows is the title of a record as its frontmatter gives it, also when   *)
(* the document shares its slugEN with a track article.                    *)
(***************************************************************************)
C27_PrefixOnlyInTracks ==
    TreeBuilt =>
        \A section \in SectionsOfTree \ {"tracks"} :
            \A n \in 1..Len(DocNodesIn(section)) : \A l \in LangSet :
                \/ DocNodesIn(section)[n].name[l] = <<>>
                \/ \E j \in 1..Len(files) :
                      files[j].title = DocNodesIn(section)[n].name[l]

\* the accepted records of a section with a slugEN, in every language
SectionRecords(section, slugEN) ==
    {files[j] : j \in {k \in 1..Len(files) : /\ files[k].section = section
                                             /\ files[k].slugEN = slugEN}}

(***************************************************************************)
(* C28: document nodes are built per section: every title and every slug   *)
(* in a language slot of a document node of section S is the title or the  *)
(* slug of a record of section S with the node's slugEN; a record of       *)
(* another section with the same slugEN contributes nothing.               *)
(***************************************************************************)
C28_NodesBuiltPerSection ==
    TreeBuilt =>
        \A section \in SectionsOfTree :
            \A n \in 1..Len(DocNodesIn(section)) : \A l \in LangSet :
                LET node == DocNodesIn(section)[n]
                    own  == SectionRecords(section, node.ref)
                IN  /\ node.slug[l] = <<>>
                       \/ \E f \in own : node.slug[l] \in SlugsOfRecord(f)
                    /\ node.name[l] = <<>>
                       \/ \E f \in own : ShowsTitle(node.name[l], f.title)

\* the phases of generate in the order of the run
PhaseOrder ==
    <<"init", "ready", "scanned", "categorized", "linked", "transformed",
      "validated", "done">>

C30_DuplicateSlugsReported ==
    validation.done =>
        \A s \in 1..Len(navbar) : \A l \in LangSet :
            \A i, j \in 1..Len(Flatten(navbar[s].categories)) :
                LET a == Flatten(navbar[s].categories)[i]
                    b == Flatten(navbar[s].categories)[j]
                IN  (i < j /\ a.slug[l] # <<>> /\ a.slug[l] = b.slug[l])
                    => \E e \in 1..Len(validation.errors) :
                          /\ validation.errors[e].check = "content"
                          /\ validation.errors[e].slug = a.slug[l]

====
